---- MODULE Spec2Model ----
(***************************************************************************)
(* Model of the risk_assessment repository: the risk score calculator      *)
(* (modules/calculators/risk_calculator.py), the aggregation pass of       *)
(* risk_assessment.main, the two surcharge functions (fkauto.py and        *)
(* modules/calculators/tree_calculator.py) and the geo x industry          *)
(* condition tree of fkauto.py.                                            *)
(*                                                                         *)
(* Floating point values are modelled as extended rationals: a finite      *)
(* value is an exact fraction n/d in lowest terms, and NaN, +inf and -inf  *)
(* are values of their own with the IEEE-754 rules for / * + - and for     *)
(* comparisons (every comparison with NaN is false).                       *)
(***************************************************************************)
EXTENDS Integers, Sequences, FiniteSets, TLC

VARIABLES
    config,              \* RiskScoreCalculator.config['scoring_weights']
    columns,             \* the columns of the input DataFrame
    data,                \* the input DataFrame: a sequence of rows
    scored,              \* the DataFrame calculate_scores returned
    multi_dim_analysis,  \* main: the grouped DataFrame, one row per group
    pc,                  \* main: position in the run
    weight,              \* the weight calculate_nonlinear_surcharge is called with
    calls,               \* the last two calls of calculate_nonlinear_surcharge
    tree_calls,          \* the last call of TreeAnalysisCalculator.calculate_surcharge
    root,                \* fkauto.root: the condition tree
    tree_op,             \* the last call on the condition tree, with its result
    builds,              \* number of build_condition_tree calls so far
    calc_root,           \* TreeAnalysisCalculator.root: the aggregation tree
    calc_op,             \* the last call on the TreeAnalysisCalculator
    calc_done,           \* the passes run on the aggregation tree since it was built
    calc_built,          \* the arguments of the last build_tree call
    risk_data,           \* RiskScoreLookup.risk_data: the scored dataset
    lookup_op,           \* the last call on the lookup or the application, with its result
    industry_data,       \* the industry classification: a forest of nodes
    industry_lookup,     \* the index build_industry_lookup returned
    index_op,            \* the last call on the index, with its result
    config_file,         \* fkauto: config/risk_assessment.yml as load_config finds it
    config_op,           \* the last call that takes its weights from the configuration
    data_cache,          \* RiskDataCache.data_cache: key -> <<DataFrame>> or None
    cache_log            \* the calls made on the RiskDataCache so far, with their results

scoreVars == <<config, columns, data, scored, multi_dim_analysis, pc>>
surchargeVars == <<weight, calls, tree_calls>>
treeVars == <<root, tree_op, builds>>
calcVars == <<calc_root, calc_op, calc_done, calc_built>>
lookupVars == <<risk_data, lookup_op>>
indexVars == <<industry_data, industry_lookup, index_op>>
configVars == <<config_file, config_op>>
cacheVars == <<data_cache, cache_log>>
vars == <<scoreVars, surchargeVars, treeVars, calcVars, lookupVars, indexVars, configVars, cacheVars>>

\* what the steps of each part leave alone
scoreRest == <<surchargeVars, treeVars, calcVars, lookupVars, indexVars, configVars, cacheVars>>
surchargeRest == <<scoreVars, treeVars, calcVars, lookupVars, indexVars, configVars, cacheVars>>
treeRest == <<scoreVars, surchargeVars, calcVars, lookupVars, indexVars, configVars, cacheVars>>
calcRest == <<scoreVars, surchargeVars, treeVars, lookupVars, indexVars, configVars, cacheVars>>
lookupRest == <<scoreVars, surchargeVars, treeVars, calcVars, indexVars, configVars, cacheVars>>
indexRest == <<scoreVars, surchargeVars, treeVars, calcVars, lookupVars, configVars, cacheVars>>
configRest == <<scoreVars, surchargeVars, treeVars, calcVars, lookupVars, indexVars, cacheVars>>
cacheRest == <<scoreVars, surchargeVars, treeVars, calcVars, lookupVars, indexVars, configVars>>

\* Python's None; a value v that may be None is held as <<v>>
None == <<>>

(***************************************************************************)
(* float arithmetic                                                        *)
(***************************************************************************)
RECURSIVE GCD(_, _)
GCD(a, b) == IF b = 0 THEN a ELSE GCD(b, a % b)

Abs(x) == IF x < 0 THEN -x ELSE x

NaN == [k |-> "nan", n |-> 0, d |-> 1]
PInf == [k |-> "inf", n |-> 1, d |-> 1]
NInf == [k |-> "inf", n |-> -1, d |-> 1]

\* the finite value n/d (d # 0), in lowest terms with a positive denominator
Fin(n, d) ==
    LET g == GCD(Abs(n), Abs(d))
        s == IF d < 0 THEN -1 ELSE 1
    IN  [k |-> "fin", n |-> s * (n \div g), d |-> s * (d \div g)]

Num(i) == Fin(i, 1)

IsNaN(x) == x.k = "nan"
IsInf(x) == x.k = "inf"
IsFin(x) == x.k = "fin"

Sign(x) == IF x.n > 0 THEN 1 ELSE IF x.n < 0 THEN -1 ELSE 0

\* x > y on floats: false when either is NaN
FGt(x, y) ==
    IF IsNaN(x) \/ IsNaN(y) THEN FALSE
    ELSE IF IsInf(x) THEN x.n = 1 /\ y # PInf
    ELSE IF IsInf(y) THEN y.n = -1
    ELSE x.n * y.d > y.n * x.d

FNeg(x) == IF IsNaN(x) THEN NaN ELSE [x EXCEPT !.n = -x.n]

FAdd(x, y) ==
    IF IsNaN(x) \/ IsNaN(y) THEN NaN
    ELSE IF IsInf(x) /\ IsInf(y) THEN (IF x.n = y.n THEN x ELSE NaN)
    ELSE IF IsInf(x) THEN x
    ELSE IF IsInf(y) THEN y
    ELSE Fin(x.n * y.d + y.n * x.d, x.d * y.d)

FSub(x, y) == FAdd(x, FNeg(y))

FMul(x, y) ==
    IF IsNaN(x) \/ IsNaN(y) THEN NaN
    ELSE IF IsInf(x) \/ IsInf(y)
         THEN (IF Sign(x) = 0 \/ Sign(y) = 0 THEN NaN
               ELSE IF Sign(x) = Sign(y) THEN PInf ELSE NInf)
    ELSE Fin(x.n * y.n, x.d * y.d)

\* numpy float division: x/0 is +-inf, 0/0 and inf/inf are NaN
FDiv(x, y) ==
    IF IsNaN(x) \/ IsNaN(y) THEN NaN
    ELSE IF IsInf(y) THEN (IF IsInf(x) THEN NaN ELSE Num(0))
    ELSE IF Sign(y) = 0
         THEN (IF Sign(x) = 0 THEN NaN ELSE IF Sign(x) > 0 THEN PInf ELSE NInf)
    ELSE IF IsInf(x) THEN (IF Sign(x) = Sign(y) THEN PInf ELSE NInf)
    ELSE Fin(x.n * y.d, x.d * y.n)

\* numpy round of a finite value to an integer: half to even
RoundHalfEven(x) ==
    LET fl == IF x.n >= 0 THEN x.n \div x.d ELSE -((-x.n + x.d - 1) \div x.d)
        r2 == 2 * (x.n - fl * x.d)
    IN  IF r2 > x.d THEN fl + 1
        ELSE IF r2 < x.d THEN fl
        ELSE IF fl % 2 = 0 THEN fl ELSE fl + 1

\* Series.sum(): NaN is skipped, the empty sum is 0
RECURSIVE SeriesSum(_)
SeriesSum(s) ==
    IF s = <<>> THEN Num(0)
    ELSE LET rest == SeriesSum(Tail(s))
         IN  IF IsNaN(Head(s)) THEN rest ELSE FAdd(Head(s), rest)

\* Series.max(): NaN is skipped, NaN when nothing is left
RECURSIVE SeriesMax(_)
SeriesMax(s) ==
    IF s = <<>> THEN NaN
    ELSE LET rest == SeriesMax(Tail(s))
             h == Head(s)
         IN  IF IsNaN(h) THEN rest
             ELSE IF IsNaN(rest) THEN h
             ELSE IF FGt(h, rest) THEN h ELSE rest

(***************************************************************************)
(* RiskScoreCalculator (modules/calculators/risk_calculator.py)            *)
(*                                                                         *)
(* Column names: "claims" is the cumulative claim amount, "premium" the    *)
(* earned premium, "insured" the final insured count and "incidents" the   *)
(* number of reported claims.                                              *)
(***************************************************************************)
FinancialColumns == {"claims", "premium", "insured", "incidents"}

WeightNames == {"alpha", "beta", "gamma", "delta"}

\* the defaults of __init__: 0.7, 0.2, 0.05, 0.05
DefaultWeight(w) ==
    CASE w = "alpha" -> Fin(7, 10)
      [] w = "beta" -> Fin(2, 10)
      [] w = "gamma" -> Fin(5, 100)
      [] w = "delta" -> Fin(5, 100)

\* weights.get(name, default) over config.get('scoring_weights', {})
Weight(cfg, w) == IF w \in DOMAIN cfg THEN cfg[w] ELSE DefaultWeight(w)

\* the column c of the rows, as a Series
Column(rows, c) == [i \in 1..Len(rows) |-> rows[i][c]]

\* a Series of the frame's length holding one scalar
Broadcast(rows, x) == [i \in 1..Len(rows) |-> x]

\* element-wise division of two Series
SeriesDiv(a, b) == [i \in 1..Len(a) |-> FDiv(a[i], b[i])]

\* whether calculate_scores creates the derived column
HasClaimRate(cols) == "claims" \in cols /\ "premium" \in cols
HasIncidentRate(cols) == "incidents" \in cols /\ "insured" \in cols
HasAvgClaim(cols) == "claims" \in cols /\ "insured" \in cols
HasPremiumShare(cols) == "premium" \in cols

\* result['claim_rate'] (when created)
ClaimRate(rows) == SeriesDiv(Column(rows, "claims"), Column(rows, "premium"))

\* result['incident_rate'] (when created)
IncidentRate(rows) == SeriesDiv(Column(rows, "incidents"), Column(rows, "insured"))

\* result['avg_claim_per_person'] (when created)
AvgClaimPerPerson(rows) == SeriesDiv(Column(rows, "claims"), Column(rows, "insured"))

\* result['premium_share'] (when created): premium / total, 0 when total <= 0
PremiumShare(rows) ==
    LET total_premium == SeriesSum(Column(rows, "premium"))
    IN  IF FGt(total_premium, Num(0))
        THEN SeriesDiv(Column(rows, "premium"), Broadcast(rows, total_premium))
        ELSE Broadcast(rows, Num(0))

\* result['avg_claim_norm'] (when created): avg / max, 0.0 unless max > 0
AvgClaimNorm(rows) ==
    LET avg == AvgClaimPerPerson(rows)
        max_claim_per_person == SeriesMax(avg)
    IN  IF FGt(max_claim_per_person, Num(0))
        THEN SeriesDiv(avg, Broadcast(rows, max_claim_per_person))
        ELSE Broadcast(rows, Num(0))

\* PremiumShareNorm with the default 0 of the other three terms
PremiumShareNormDefault0(cols, rows) ==
    IF HasPremiumShare(cols) THEN PremiumShare(rows) ELSE Broadcast(rows, Num(0))

\* result['premium_share_norm'] = result.get('premium_share', 1)
PremiumShareNorm(cols, rows) ==
    IF HasPremiumShare(cols) THEN PremiumShare(rows) ELSE Broadcast(rows, Num(1))

\* alpha * result.get('claim_rate', 0) + beta * result.get('premium_share_norm', 1)
\*   + gamma * result.get('incident_rate', 0) + delta * result.get('avg_claim_norm', 0)
WeightedSum(cfg, cols, rows) ==
    LET cr == IF HasClaimRate(cols) THEN ClaimRate(rows) ELSE Broadcast(rows, Num(0))
        ps == PremiumShareNorm(cols, rows)
        ir == IF HasIncidentRate(cols) THEN IncidentRate(rows) ELSE Broadcast(rows, Num(0))
        an == IF HasAvgClaim(cols) THEN AvgClaimNorm(rows) ELSE Broadcast(rows, Num(0))
    IN  [i \in 1..Len(rows) |->
            FAdd(FAdd(FAdd(FMul(Weight(cfg, "alpha"), cr[i]),
                           FMul(Weight(cfg, "beta"), ps[i])),
                      FMul(Weight(cfg, "gamma"), ir[i])),
                 FMul(Weight(cfg, "delta"), an[i]))]

\* FinalizeScore without the clip to [0, 100]
FinalizeScoreNoClip(x) ==
    LET filled == IF IsNaN(x) THEN Num(50) ELSE x
        finite == IF IsInf(filled) THEN Num(50) ELSE filled
    IN  RoundHalfEven(finite)

\* fillna(50), replace(+-inf, 50), clip(0, 100), round(), astype(int)
FinalizeScore(x) ==
    LET filled == IF IsNaN(x) THEN Num(50) ELSE x
        finite == IF IsInf(filled) THEN Num(50) ELSE filled
        clipped == IF FGt(Num(0), finite) THEN Num(0)
                   ELSE IF FGt(finite, Num(100)) THEN Num(100) ELSE finite
    IN  RoundHalfEven(clipped)

\* result['risk_score'] of calculate_scores(data)
RiskScores(cfg, cols, rows) ==
    LET ws == WeightedSum(cfg, cols, rows)
    IN  [i \in 1..Len(rows) |->
            FinalizeScore(FSub(Num(100), FMul(ws[i], Num(100))))]

\* calculate_scores(data): the rows with their risk_score column added (the
\* derived ratio columns are not read again by any caller and are left out)
calculate_scores(cfg, cols, rows) ==
    LET rs == RiskScores(cfg, cols, rows)
    IN  [i \in 1..Len(rows) |-> rows[i] @@ ("risk_score" :> rs[i])]

(***************************************************************************)
(* the parts of the state a run does not use                               *)
(***************************************************************************)
IdleScore ==
    /\ config = [w \in {} |-> 0]
    /\ columns = {}
    /\ data = <<>>
    /\ scored = <<>>
    /\ multi_dim_analysis = <<>>
    /\ pc = "idle"

IdleSurcharge ==
    /\ weight = 0
    /\ calls = <<>>
    /\ tree_calls = <<>>

\* fkauto.root = TreeNode(): no children, score and surcharge None
EmptyTree == (<<>> :> [score |-> None, surcharge |-> None])

IdleTree ==
    /\ root = EmptyTree
    /\ tree_op = [op |-> "none"]
    /\ builds = 0

\* tree_calculator.TreeNode(name, value): no children, score, surcharge and
\* data None; seq is the position of the node in the order of creation,
\* which is the order the children dicts iterate in
CalcTreeNode(name, value, seq) ==
    [name |-> name, value |-> value, score |-> None, surcharge |-> None,
     data |-> None, seq |-> seq]

\* self.root = TreeNode("root")
EmptyCalcTree == (<<>> :> CalcTreeNode("root", None, 0))

\* scores: calculate_tree_scores has run on the tree; surcharges:
\* calculate_surcharges has run on it after calculate_tree_scores
NothingDone == [scores |-> FALSE, surcharges |-> FALSE]

IdleCalc ==
    /\ calc_root = EmptyCalcTree
    /\ calc_op = [op |-> "none"]
    /\ calc_done = NothingDone
    /\ calc_built = [records |-> <<>>, dimensions |-> <<>>]

\* RiskScoreLookup.risk_data = None: no dataset loaded
IdleLookup ==
    /\ risk_data = [columns |-> {}, rows |-> <<>>]
    /\ lookup_op = [op |-> "none"]

\* no classification loaded, no index built
IdleIndex ==
    /\ industry_data = <<>>
    /\ industry_lookup = [c \in {} |-> None]
    /\ index_op = [op |-> "none"]

\* no configuration file, no call made
IdleConfig ==
    /\ config_file = [exists |-> FALSE]
    /\ config_op = [op |-> "none"]

\* no RiskDataCache in use
IdleCache ==
    /\ data_cache = [k \in {} |-> None]
    /\ cache_log = <<>>

IdleScoreRest == IdleSurcharge /\ IdleTree /\ IdleCalc /\ IdleLookup /\ IdleIndex /\ IdleConfig /\ IdleCache
IdleSurchargeRest == IdleScore /\ IdleTree /\ IdleCalc /\ IdleLookup /\ IdleIndex /\ IdleConfig /\ IdleCache
IdleTreeRest == IdleScore /\ IdleSurcharge /\ IdleCalc /\ IdleLookup /\ IdleIndex /\ IdleConfig /\ IdleCache
IdleCalcRest == IdleScore /\ IdleSurcharge /\ IdleTree /\ IdleLookup /\ IdleIndex /\ IdleConfig /\ IdleCache
IdleLookupRest == IdleScore /\ IdleSurcharge /\ IdleTree /\ IdleCalc /\ IdleIndex /\ IdleConfig /\ IdleCache
IdleIndexRest == IdleScore /\ IdleSurcharge /\ IdleTree /\ IdleCalc /\ IdleLookup /\ IdleConfig /\ IdleCache
IdleConfigRest == IdleScore /\ IdleSurcharge /\ IdleTree /\ IdleCalc /\ IdleLookup /\ IdleIndex /\ IdleCache
IdleCacheRest == IdleScore /\ IdleSurcharge /\ IdleTree /\ IdleCalc /\ IdleLookup /\ IdleIndex /\ IdleConfig

(***************************************************************************)
(* inputs                                                                  *)
(***************************************************************************)
MaxBatch == 2

Row(premium, claims, insured, incidents) ==
    ("premium" :> premium) @@ ("claims" :> claims) @@
    ("insured" :> insured) @@ ("incidents" :> incidents)

\* rows with ordinary values, zero and NaN denominators, claims above the
\* premium and a negative claim amount (recoveries)
RecordPool ==
    { Row(Num(100), Num(40), Num(10), Num(2)),
      Row(Num(100), Num(200), Num(10), Num(4)),
      Row(Num(200), Num(0), Num(10), Num(0)),
      Row(Num(100), Num(-40), Num(10), Num(0)),
      Row(Num(0), Num(40), Num(10), Num(2)),
      Row(Num(0), Num(0), Num(0), Num(0)),
      Row(NaN, Num(40), Num(10), Num(2)),
      Row(PInf, Num(40), Num(10), Num(2)),
      Row(Num(100), Num(40), Num(0), Num(2)),
      Row(Num(100), Num(40), NaN, Num(2)) }

Restrict(f, S) == [x \in S |-> f[x]]

SeqsUpTo(S, n) == UNION { [1..m -> S] : m \in 0..n }

NoConfig == [w \in {} |-> NaN]

\* config['scoring_weights']: absent, complete, and with one key only
ConfigSet ==
    { NoConfig,
      ("alpha" :> Fin(1, 2)) @@ ("beta" :> Fin(2, 5)) @@
          ("gamma" :> Num(0)) @@ ("delta" :> Fin(1, 10)),
      ("alpha" :> Fin(3, 5)) }

(***************************************************************************)
(* RiskScoreCalculator.calculate_scores on one batch                       *)
(***************************************************************************)
InitScore ==
    /\ config \in ConfigSet
    /\ columns \in SUBSET FinancialColumns
    /\ data \in SeqsUpTo({ Restrict(r, columns) : r \in RecordPool }, MaxBatch)
    /\ scored = <<>>
    /\ multi_dim_analysis = <<>>
    /\ pc = "start"
    /\ IdleScoreRest

CalculateScores ==
    /\ pc = "start"
    /\ scored' = calculate_scores(config, columns, data)
    /\ pc' = "scored"
    /\ UNCHANGED <<config, columns, data, multi_dim_analysis>>
    /\ UNCHANGED scoreRest

NextScore == CalculateScores

SpecScore == InitScore /\ [][NextScore]_vars

(***************************************************************************)
(* risk_assessment.main: calculate_scores, then the aggregation pass       *)
(*                                                                         *)
(* Group columns: "policy" is the new/renewal flag, "disability" the       *)
(* disability tier, "industry2" the level-2 industry and "city" the city.  *)
(***************************************************************************)
GroupColumns == {"policy", "disability", "industry2", "city"}

GroupKey(row) == [c \in GroupColumns |-> row[c]]

RECURSIVE SetToSeq(_)
SetToSeq(S) ==
    IF S = {} THEN <<>>
    ELSE LET x == CHOOSE y \in S : TRUE IN <<x>> \o SetToSeq(S \ {x})

\* the rows of one group, in frame order
RECURSIVE GroupRows(_, _)
GroupRows(rows, key) ==
    IF rows = <<>> THEN <<>>
    ELSE IF GroupKey(Head(rows)) = key
         THEN <<Head(rows)>> \o GroupRows(Tail(rows), key)
         ELSE GroupRows(Tail(rows), key)

\* Series.mean() of integers (the group is never empty)
SeriesMean(s) == FDiv(SeriesSum([i \in 1..Len(s) |-> Num(s[i])]), Num(Len(s)))

\* groupby(GroupColumns).agg(risk_score mean, the four columns summed)
\*   .reset_index(): one row per group key
GroupByAgg(rows) ==
    LET keys == SetToSeq({ GroupKey(rows[i]) : i \in 1..Len(rows) })
    IN  [g \in 1..Len(keys) |->
            LET grp == GroupRows(rows, keys[g])
            IN  keys[g] @@
                ("risk_score" :> SeriesMean(Column(grp, "risk_score"))) @@
                ("premium" :> SeriesSum(Column(grp, "premium"))) @@
                ("claims" :> SeriesSum(Column(grp, "claims"))) @@
                ("insured" :> SeriesSum(Column(grp, "insured"))) @@
                ("incidents" :> SeriesSum(Column(grp, "incidents")))]

\* main's weighted_sum over the group rows: the ratios are recomputed from
\* the group sums, premium_share and avg_claim_norm over the group rows
GroupWeightedSum(cfg, groups) ==
    LET cr == ClaimRate(groups)
        ir == IncidentRate(groups)
        an == AvgClaimNorm(groups)
        ps == PremiumShare(groups)
    IN  [g \in 1..Len(groups) |->
            FAdd(FAdd(FAdd(FMul(Weight(cfg, "alpha"), cr[g]),
                           FMul(Weight(cfg, "beta"), ps[g])),
                      FMul(Weight(cfg, "gamma"), ir[g])),
                 FMul(Weight(cfg, "delta"), an[g]))]

\* the aggregation pass with the recomputation left out: risk_score stays
\* the (rounded) mean of the group's per-record scores
MultiDimAnalysisMean(cfg, rows) ==
    LET groups == GroupByAgg(rows)
    IN  [g \in 1..Len(groups) |->
            [groups[g] EXCEPT !["risk_score"] = RoundHalfEven(@)]]

\* main's multi_dim_analysis: the grouped frame with risk_score recomputed
MultiDimAnalysis(cfg, rows) ==
    LET groups == GroupByAgg(rows)
        ws == GroupWeightedSum(cfg, groups)
    IN  [g \in 1..Len(groups) |->
            [groups[g] EXCEPT !["risk_score"] =
                FinalizeScore(FSub(Num(100), FMul(ws[g], Num(100))))]]

PolicyTypes == {"new", "renewal"}
DisabilityTiers == {"tier1"}
Industry2Codes == {"C033"}
Cities == {"Taizhou"}

GroupKeys ==
    { ("policy" :> p) @@ ("disability" :> t) @@ ("industry2" :> c) @@ ("city" :> y) :
        p \in PolicyTypes, t \in DisabilityTiers, c \in Industry2Codes, y \in Cities }

InitMain ==
    /\ config \in ConfigSet
    /\ columns = FinancialColumns \cup GroupColumns
    /\ data \in SeqsUpTo({ r @@ k : r \in RecordPool, k \in GroupKeys }, MaxBatch)
    /\ scored = <<>>
    /\ multi_dim_analysis = <<>>
    /\ pc = "start"
    /\ IdleScoreRest

Aggregate ==
    /\ pc = "scored"
    /\ multi_dim_analysis' = MultiDimAnalysis(config, scored)
    /\ pc' = "aggregated"
    /\ UNCHANGED <<config, columns, data, scored>>
    /\ UNCHANGED scoreRest

NextMain == CalculateScores \/ Aggregate

SpecMain == InitMain /\ [][NextMain]_vars

(***************************************************************************)
(* the surcharge functions                                                 *)
(*                                                                         *)
(* Fixed point: a score is held in hundredths, a weight in units of        *)
(* 0.00001 and a surcharge in hundredths of a percent, so the boundary     *)
(* value 1000.0 * weight is the weight's own number.                       *)
(***************************************************************************)
\* math.exp(-0.046 * score) in millionths, for the scores of NonlinearScores
\* strictly between 0 and 100
ExpTable ==
    (1 :> 999540) @@ (50 :> 977262) @@ (100 :> 955042) @@ (500 :> 794534) @@
    (1000 :> 631284) @@ (2000 :> 398519) @@ (4000 :> 158817) @@
    (5000 :> 100259) @@ (6000 :> 63292) @@ (8000 :> 25223) @@
    (9900 :> 10525) @@ (9990 :> 10098) @@ (9995 :> 10075)

\* base * w for base >= 0 in thousandths and w in units of 0.00001, as
\* [q, r]: q tenths and r units of 0.00000001 (0 <= r < 10000000)
Weighted(base, w) ==
    LET a == (base \div 1000) * w
        rem == (a % 10000) * 1000 + (base % 1000) * w
    IN  [q |-> (a \div 10000) + (rem \div 10000000), r |-> rem % 10000000]

\* 1000.0 * weight in the same form
Cap(w) == [q |-> w \div 10, r |-> (w % 10) * 1000000]

Exceeds(x, y) == x.q > y.q \/ (x.q = y.q /\ x.r > y.r)

\* round(x, 1) in hundredths: half to even
Round1(x) ==
    10 * (IF 2 * x.r > 10000000 \/ (2 * x.r = 10000000 /\ x.q % 2 = 1)
          THEN x.q + 1 ELSE x.q)

\* fkauto.calculate_nonlinear_surcharge(score, weight), weight > 0
calculate_nonlinear_surcharge(s, w) ==
    IF s >= 10000 THEN 0
    ELSE IF s <= 0 THEN w
    ELSE LET exp_base == ExpTable[s] - 10000
             base_surcharge == IF s > 9990 THEN 0 ELSE exp_base
         IN  IF base_surcharge < 0 THEN 0
             ELSE LET weighted_surcharge == Weighted(base_surcharge, w)
                  IN  IF Exceeds(weighted_surcharge, Cap(w))
                      THEN Round1(Cap(w))
                      ELSE Round1(weighted_surcharge)

\* round(base / 100, 2) in hundredths, base in hundredths: half to even
Round2(base) ==
    LET q == base \div 100
        r == base % 100
    IN  IF 2 * r > 100 \/ (2 * r = 100 /\ q % 2 = 1) THEN q + 1 ELSE q

\* the piecewise base of TreeAnalysisCalculator.calculate_surcharge
PiecewiseBase(s) ==
    IF s >= 6000 THEN 4000 + (10000 - s) * 3
    ELSE IF s >= 4000 THEN 16000 + (6000 - s) * 8
    ELSE 32000 + (4000 - s) * 17

\* calculate_surcharge without its two boundary overrides
tree_calculate_surcharge_no_override(s) == Round2(PiecewiseBase(s))

\* TreeAnalysisCalculator.calculate_surcharge(score)
tree_calculate_surcharge(s) ==
    IF s >= 10000 THEN 0
    ELSE IF s <= 0 THEN 100000
    ELSE Round2(PiecewiseBase(s))

\* scores from below 0 to above 100, with 0.01, 0.5, 99.9 and 99.95
NonlinearScores ==
    {-500, 0, 1, 50, 100, 500, 1000, 2000, 4000, 5000, 6000, 8000, 9900,
     9990, 9995, 10000, 10050}

\* scores around the breakpoints 40 and 60 of the piecewise formula
PiecewiseScores ==
    {-500, 0, 1, 20, 1000, 2000, 3990, 4000, 4020, 5000, 5980, 6000, 6040,
     8000, 9900, 9980, 10000, 10050}

\* weights 0.00099, 0.001, 0.5, 0.8, 1.0 and 1.2
SurchargeWeights == {99, 100, 50000, 80000, 100000, 120000}

InitSurcharge ==
    /\ weight \in SurchargeWeights
    /\ calls = <<>>
    /\ tree_calls = <<>>
    /\ IdleSurchargeRest

\* one call calculate_nonlinear_surcharge(s, weight)
CallNonlinear ==
    \E s \in NonlinearScores :
        LET c == [score |-> s, surcharge |-> calculate_nonlinear_surcharge(s, weight)]
        IN  /\ calls' = IF Len(calls) < 2 THEN Append(calls, c) ELSE <<calls[2], c>>
            /\ UNCHANGED <<weight, tree_calls, surchargeRest>>

\* one call TreeAnalysisCalculator.calculate_surcharge(s)
CallPiecewise ==
    \E s \in PiecewiseScores :
        /\ tree_calls' = <<[score |-> s, surcharge |-> tree_calculate_surcharge(s)]>>
        /\ UNCHANGED <<weight, calls, surchargeRest>>

NextSurcharge == CallNonlinear \/ CallPiecewise

SpecSurcharge == InitSurcharge /\ [][NextSurcharge]_vars

(***************************************************************************)
(* fkauto: the condition tree                                              *)
(*                                                                         *)
(* A data line is the sequence of its tab-separated fields and a field is  *)
(* the sequence of its '|'-separated parts, so "C|Manufacturing" is        *)
(* <<"C", "Manufacturing">> and the empty field is <<"">>.  The tree is    *)
(* the function from the path of each node (the keys from the root) to     *)
(* the node's score and surcharge.                                         *)
(***************************************************************************)
\* the field as the string it is in the line
RECURSIVE Raw(_)
Raw(field) ==
    IF Len(field) = 1 THEN field[1]
    ELSE field[1] \o "|" \o Raw(Tail(field))

\* str.strip() on the strings of the model: only " " holds whitespace
Strip(str) == IF str = " " THEN "" ELSE str

IsBlank(field) == Strip(Raw(field)) = ""

RECURSIVE DropLeadingBlank(_)
DropLeadingBlank(fields) ==
    IF fields # <<>> /\ IsBlank(Head(fields))
    THEN DropLeadingBlank(Tail(fields)) ELSE fields

RECURSIVE DropTrailingBlank(_)
DropTrailingBlank(fields) ==
    IF fields # <<>> /\ IsBlank(fields[Len(fields)])
    THEN DropTrailingBlank(SubSeq(fields, 1, Len(fields) - 1)) ELSE fields

\* line.strip().split('\t'): strip() removes the leading and trailing
\* whitespace of the line, tabs included, so blank fields at either end of
\* the line disappear; a line left empty splits into one empty part
SplitLine(line) ==
    LET parts == DropTrailingBlank(DropLeadingBlank(line))
    IN  IF parts = <<>> THEN <<(<<"">>)>> ELSE parts

\* field.split('|')[0].strip() if field.strip() else ''
Code(field) == IF IsBlank(field) THEN "" ELSE Strip(field[1])

\* float(str) of the score strings of the model, in hundredths
ParseFloat(str) ==
    CASE str = "0" -> 0
      [] str = "20" -> 2000
      [] str = "60" -> 6000
      [] str = "100" -> 10000

\* the industry codes up to the first empty one
RECURSIVE IndustryPath(_)
IndustryPath(codes) ==
    IF codes = <<>> \/ Head(codes) = "" THEN <<>>
    ELSE <<Head(codes)>> \o IndustryPath(Tail(codes))

Prefixes(path) == { SubSeq(path, 1, k) : k \in 0..Len(path) }

TreeNode == [score |-> None, surcharge |-> None]

\* the walk from the root that creates the missing children of the path,
\* then sets the score and the surcharge of the node reached
SetNode(tree, path, score, surcharge) ==
    [p \in DOMAIN tree \cup Prefixes(path) |->
        IF p = path THEN [score |-> <<score>>, surcharge |-> <<surcharge>>]
        ELSE IF p \in DOMAIN tree THEN tree[p] ELSE TreeNode]

\* InsertRow with the piecewise surcharge of the aggregation tree
InsertRowPiecewise(tree, path, score, w) ==
    SetNode(tree, path, score, tree_calculate_surcharge(score))

\* InsertRow that sets the score and the surcharge of every node it walks
\* through
InsertRowAlongPath(tree, path, score, w) ==
    [p \in DOMAIN tree \cup Prefixes(path) |->
        IF p \in Prefixes(path) /\ p # <<>>
        THEN [score |-> <<score>>, surcharge |-> <<calculate_nonlinear_surcharge(score, w)>>]
        ELSE tree[p]]

\* build_condition_tree: insert one row at its path
InsertRow(tree, path, score, w) ==
    SetNode(tree, path, score, calculate_nonlinear_surcharge(score, w))

\* the path build_condition_tree builds from the parts of a line
LinePath(parts) ==
    <<Strip(Raw(parts[1])), Strip(Raw(parts[2]))>>
        \o IndustryPath(<<Code(parts[3]), Code(parts[4]), Code(parts[5])>>)

\* whether the loop body inserts the line: 10 parts at least, province and
\* city not empty
IsInserted(line) ==
    LET parts == SplitLine(line)
    IN  /\ Len(parts) >= 10
        /\ Strip(Raw(parts[1])) # ""
        /\ Strip(Raw(parts[2])) # ""

\* one pass of the loop of build_condition_tree
BuildLine(tree, line, w) ==
    LET parts == SplitLine(line)
    IN  IF IsInserted(line)
        THEN InsertRow(tree, LinePath(parts), ParseFloat(Raw(parts[Len(parts)])), w)
        ELSE tree

\* build_condition_tree(data_lines, weight) on the tree
RECURSIVE build_condition_tree(_, _, _)
build_condition_tree(tree, lines, w) ==
    IF lines = <<>> THEN tree
    ELSE build_condition_tree(BuildLine(tree, Head(lines), w), Tail(lines), w)

\* the query path of calculate_surcharge
QueryPath(q) ==
    <<Strip(Raw(q[1])), Strip(Raw(q[2]))>>
        \o IndustryPath(<<Code(q[3]), Code(q[4]), Code(q[5])>>)

\* the walk of calculate_surcharge from the node at `at`
RECURSIVE Walk(_, _, _, _)
Walk(tree, at, rest, best_surcharge) ==
    IF rest = <<>> THEN best_surcharge
    ELSE LET child == Append(at, Head(rest))
         IN  IF child \in DOMAIN tree
             THEN Walk(tree, child, Tail(rest),
                       IF tree[child].surcharge # None
                       THEN tree[child].surcharge[1] ELSE best_surcharge)
             ELSE best_surcharge

\* the walk that keeps the first surcharge it meets
RECURSIVE WalkFirst(_, _, _, _)
WalkFirst(tree, at, rest, best_surcharge) ==
    IF rest = <<>> THEN best_surcharge
    ELSE LET child == Append(at, Head(rest))
         IN  IF child \in DOMAIN tree
             THEN IF tree[child].surcharge # None
                  THEN tree[child].surcharge[1]
                  ELSE WalkFirst(tree, child, Tail(rest), best_surcharge)
             ELSE best_surcharge

calculate_surcharge_first(tree, q) == WalkFirst(tree, <<>>, QueryPath(q), 0)

\* the walk that answers only when the whole query path is in the tree
RECURSIVE WalkExact(_, _, _)
WalkExact(tree, at, rest) ==
    IF rest = <<>>
    THEN IF tree[at].surcharge # None THEN tree[at].surcharge[1] ELSE 0
    ELSE LET child == Append(at, Head(rest))
         IN  IF child \in DOMAIN tree THEN WalkExact(tree, child, Tail(rest)) ELSE 0

calculate_surcharge_exact(tree, q) == WalkExact(tree, <<>>, QueryPath(q))

\* fkauto.calculate_surcharge(province, city, menlei, dalei, zhonglei)
calculate_surcharge(tree, q) == Walk(tree, <<>>, QueryPath(q), 0)

MaxLines == 1
MaxBuilds == 2

Fillers(n) == [i \in 1..n |-> <<"0">>]

\* a data line: the five path fields, n further columns, the score
Line(province, city, menlei, dalei, zhonglei, n, score) ==
    <<province, city, menlei, dalei, zhonglei>> \o Fillers(n) \o <<score>>

Jiangsu == <<"Jiangsu">>
Taizhou == <<"Taizhou">>
Wuxi == <<"Wuxi">>
Empty == <<"">>

\* the two example rows of the module (15 fields each), rows with an empty
\* industry field, an empty city, an empty province, and a 9-field row
LinePool ==
    { Line(Jiangsu, Taizhou, <<"C", "Manufacturing">>, <<"C033", "Metal">>,
           <<"C0331", "Structural">>, 9, <<"20">>),
      Line(Jiangsu, Wuxi, <<"N", "Utilities">>, <<"N078", "Public">>,
           <<"N0781", "Municipal">>, 9, <<"100">>),
      Line(Jiangsu, Taizhou, <<"C", "Manufacturing">>, <<"C033", "Metal">>,
           Empty, 9, <<"60">>),
      Line(Jiangsu, Taizhou, Empty, <<"C033", "Metal">>,
           <<"C0331", "Structural">>, 9, <<"60">>),
      Line(Jiangsu, Taizhou, <<"C", "Manufacturing">>, Empty,
           <<"C0331", "Structural">>, 9, <<"0">>),
      Line(Jiangsu, Empty, <<"C", "Manufacturing">>, <<"C033", "Metal">>,
           <<"C0331", "Structural">>, 9, <<"20">>),
      Line(Empty, Taizhou, <<"C", "Manufacturing">>, <<"C033", "Metal">>,
           <<"C0331", "Structural">>, 9, <<"20">>),
      Line(Jiangsu, Taizhou, <<"C", "Manufacturing">>, <<"C033", "Metal">>,
           <<"C0331", "Structural">>, 3, <<"20">>) }

\* queries: an inserted path, an unknown level-3 code, a blank level-1 and
\* an empty level-2 field, another city, an unknown city, and the keys a
\* province-less line leaves behind
QueryPool ==
    { <<Jiangsu, Taizhou, <<"C", "Manufacturing">>, <<"C033", "Metal">>,
        <<"C0331", "Structural">>>>,
      <<Jiangsu, Taizhou, <<"C", "Manufacturing">>, <<"C033", "Metal">>,
        <<"C9999", "Unknown">>>>,
      <<Jiangsu, Taizhou, <<" ">>, <<"C033", "Metal">>, <<"C0331", "Structural">>>>,
      <<Jiangsu, Taizhou, <<"C", "Manufacturing">>, Empty, <<"C0331", "Structural">>>>,
      <<Jiangsu, Wuxi, <<"N", "Utilities">>, <<"N078", "Public">>,
        <<"N0781", "Municipal">>>>,
      <<Jiangsu, <<"Suzhou">>, <<"C", "Manufacturing">>, <<"C033", "Metal">>,
        <<"C0331", "Structural">>>>,
      <<Taizhou, <<"C", "Manufacturing">>, <<"C033">>, <<"C0331">>, <<"0">>>> }

\* weights 0.5 and 1.0
TreeWeights == {50000, 100000}

\* root = TreeNode() (fkauto.py line 175); the build_condition_tree call the
\* module itself makes on its two example rows is one of the Build steps
InitTree ==
    /\ root = EmptyTree
    /\ tree_op = [op |-> "none"]
    /\ builds = 0
    /\ IdleTreeRest

\* a build call that starts from a fresh root, as build_tree of the
\* TreeAnalysisCalculator does
BuildFresh ==
    /\ builds < MaxBuilds
    /\ \E lines \in SeqsUpTo(LinePool, MaxLines), w \in TreeWeights :
          /\ root' = build_condition_tree(EmptyTree, lines, w)
          /\ tree_op' = [op |-> "build", lines |-> lines, weight |-> w, before |-> root]
    /\ builds' = builds + 1
    /\ UNCHANGED treeRest

\* a call build_condition_tree(lines, w)
Build ==
    /\ builds < MaxBuilds
    /\ \E lines \in SeqsUpTo(LinePool, MaxLines), w \in TreeWeights :
          /\ root' = build_condition_tree(root, lines, w)
          /\ tree_op' = [op |-> "build", lines |-> lines, weight |-> w, before |-> root]
    /\ builds' = builds + 1
    /\ UNCHANGED treeRest

\* a query that creates the nodes of its path that are missing, as a walk
\* through children.setdefault(code, TreeNode()) would
QueryCreating ==
    /\ \E q \in QueryPool :
          /\ tree_op' = [op |-> "query", query |-> q, result |-> calculate_surcharge(root, q)]
          /\ root' = [p \in DOMAIN root \cup Prefixes(QueryPath(q)) |->
                         IF p \in DOMAIN root THEN root[p] ELSE TreeNode]
    /\ UNCHANGED <<builds, treeRest>>

\* a call calculate_surcharge(province, city, menlei, dalei, zhonglei)
Query ==
    /\ \E q \in QueryPool :
          tree_op' = [op |-> "query", query |-> q, result |-> calculate_surcharge(root, q)]
    /\ UNCHANGED <<root, builds, treeRest>>

NextTree == Build \/ Query

SpecTree == InitTree /\ [][NextTree]_vars

(***************************************************************************)
(* claims about the surcharge functions                                    *)
(***************************************************************************)
\* C5: for a weight w > 0, calculate_nonlinear_surcharge(score, w) is 0.0
\* for score >= 100, 1000*w for score <= 0, and within [0, 1000*w] for every
\* score in between.
C5_NonlinearBounds ==
    \A i \in 1..Len(calls) :
        /\ calls[i].score >= 10000 => calls[i].surcharge = 0
        /\ calls[i].score <= 0 => calls[i].surcharge = weight
        /\ (0 < calls[i].score /\ calls[i].score < 10000)
              => (0 <= calls[i].surcharge /\ calls[i].surcharge <= weight)

\* C6: for a fixed weight w > 0, calculate_nonlinear_surcharge is
\* non-increasing in the score: of two calls, the one with the lower score
\* never returns the smaller surcharge.
C6_NonlinearMonotone ==
    \A i, j \in 1..Len(calls) :
        calls[i].score <= calls[j].score => calls[i].surcharge >= calls[j].surcharge

\* C7: TreeAnalysisCalculator.calculate_surcharge(score) is 0.0 for
\* score >= 100, 1000 for score <= 0, and otherwise round(base/100, 2) with
\* base = 40 + (100-score)*3 for score >= 60, 160 + (60-score)*8 for
\* 40 <= score < 60 and 320 + (40-score)*17 for score < 40.
C7_PiecewiseFormula ==
    \A i \in 1..Len(tree_calls) :
        LET s == tree_calls[i].score
            r == tree_calls[i].surcharge
        IN  /\ s >= 10000 => r = 0
            /\ s <= 0 => r = 100000
            /\ (6000 <= s /\ s < 10000) => r = Round2(4000 + (10000 - s) * 3)
            /\ (4000 <= s /\ s < 6000) => r = Round2(16000 + (6000 - s) * 8)
            /\ (0 < s /\ s < 4000) => r = Round2(32000 + (4000 - s) * 17)

\* a call with score 0 returned 1000, and so did not take the third segment
C7_Witness ==
    /\ tree_calls # <<>>
    /\ tree_calls[1].score = 0
    /\ tree_calls[1].surcharge = 100000

(***************************************************************************)
(* claims about calculate_scores                                           *)
(***************************************************************************)
Rows == 1..Len(data)

ZeroOrNaN(x) == IsNaN(x) \/ (IsFin(x) /\ x.n = 0)

\* C1: after calculate_scores, the risk_score of every record of the batch
\* is an integer between 0 and 100, whatever the inputs (zero, NaN and
\* infinite values and ratios included).
C1_ScoreInRange ==
    pc = "scored" =>
        /\ Len(scored) = Len(data)
        /\ \A i \in Rows : scored[i]["risk_score"] \in 0..100

\* a batch with all four columns in which a row with a NaN premium scored
\* 50 and a row whose claims exceed its premium was clipped up to 0
C1_Witness ==
    /\ pc = "scored"
    /\ columns = FinancialColumns
    /\ \E i, j \in Rows :
          /\ IsNaN(data[i]["premium"]) /\ scored[i]["risk_score"] = 50
          /\ FGt(data[j]["claims"], data[j]["premium"])
          /\ scored[j]["risk_score"] = 0

\* the ratios of record i that are computed and undefined: the denominator
\* is zero or NaN
UndefinedClaimRate(i) == HasClaimRate(columns) /\ ZeroOrNaN(data[i]["premium"])
UndefinedIncidentRate(i) == HasIncidentRate(columns) /\ ZeroOrNaN(data[i]["insured"])
UndefinedAvgClaim(i) == HasAvgClaim(columns) /\ ZeroOrNaN(data[i]["insured"])

\* C2: a record with an undefined ratio (earned premium zero or NaN for
\* claim_rate, insured count zero or NaN for incident_rate and
\* avg_claim_per_person) receives risk_score exactly 50, whatever the
\* weights and the other records of the batch.
C2_UndefinedRatioScores50 ==
    pc = "scored" =>
        \A i \in Rows :
            (UndefinedClaimRate(i) \/ UndefinedIncidentRate(i) \/ UndefinedAvgClaim(i))
                => scored[i]["risk_score"] = 50

\* weight * term of row i, with what calculate_scores uses for a term whose
\* input column is absent: 0 for the three ratios, 1 for the premium share
TermClaimRate(i) ==
    IF HasClaimRate(columns)
    THEN FMul(Weight(config, "alpha"), ClaimRate(data)[i]) ELSE Num(0)

TermPremiumShare(i) ==
    IF HasPremiumShare(columns)
    THEN FMul(Weight(config, "beta"), PremiumShare(data)[i])
    ELSE Weight(config, "beta")

TermIncidentRate(i) ==
    IF HasIncidentRate(columns)
    THEN FMul(Weight(config, "gamma"), IncidentRate(data)[i]) ELSE Num(0)

TermAvgClaimNorm(i) ==
    IF HasAvgClaim(columns)
    THEN FMul(Weight(config, "delta"), AvgClaimNorm(data)[i]) ELSE Num(0)

\* C3 as stated: with no financial column at all every term contributes 0
\* and every record scores 100.
C3_NoColumnsScore100 ==
    (pc = "scored" /\ columns = {}) =>
        \A i \in Rows : scored[i]["risk_score"] = 100

\* C3, amended: a term whose input column is absent contributes 0 for
\* claim_rate, incident_rate and avg_claim_norm, and beta (premium_share
\* taken as 1) for the premium share; a batch with none of the financial
\* columns scores round(100 - 100*beta) for every record.
C3_AbsentColumnTerms ==
    pc = "scored" =>
        \A i \in Rows :
            scored[i]["risk_score"] =
                FinalizeScore(FSub(Num(100),
                    FMul(FAdd(FAdd(FAdd(TermClaimRate(i), TermPremiumShare(i)),
                                   TermIncidentRate(i)),
                              TermAvgClaimNorm(i)),
                         Num(100))))

\* a scored batch without any financial column under the default weights:
\* the premium-share term alone makes the score 80
C3_Witness ==
    /\ pc = "scored"
    /\ columns = {}
    /\ config = NoConfig
    /\ Len(data) = MaxBatch
    /\ \A i \in Rows : scored[i]["risk_score"] = 80

(***************************************************************************)
(* claims about the aggregation pass of main                               *)
(***************************************************************************)
Keys == { GroupKey(data[i]) : i \in Rows }

Members(key) == { i \in Rows : GroupKey(data[i]) = key }

\* the sum of column c over the records I of the batch, NaN skipped
RECURSIVE SumOver(_, _)
SumOver(I, c) ==
    IF I = {} THEN Num(0)
    ELSE LET i == CHOOSE j \in I : TRUE
             rest == SumOver(I \ {i}, c)
         IN  IF IsNaN(data[i][c]) THEN rest ELSE FAdd(data[i][c], rest)

GroupSum(key, c) == SumOver(Members(key), c)

GroupAvgClaim(key) == FDiv(GroupSum(key, "claims"), GroupSum(key, "insured"))

\* the premium summed over all group rows
TotalGroupPremium == SumOver(Rows, "premium")

\* whether x is the largest non-NaN per-person claim among the group rows
IsMaxAvgClaim(x) ==
    /\ \E k \in Keys : GroupAvgClaim(k) = x
    /\ ~IsNaN(x)
    /\ \A k \in Keys : ~FGt(GroupAvgClaim(k), x)

\* the score the formula gives a group from its sums
GroupFormulaScore(key) ==
    LET cr == FDiv(GroupSum(key, "claims"), GroupSum(key, "premium"))
        ir == FDiv(GroupSum(key, "incidents"), GroupSum(key, "insured"))
        ps == IF FGt(TotalGroupPremium, Num(0))
              THEN FDiv(GroupSum(key, "premium"), TotalGroupPremium) ELSE Num(0)
        an == IF \E x \in { GroupAvgClaim(k) : k \in Keys } :
                    IsMaxAvgClaim(x) /\ FGt(x, Num(0))
              THEN FDiv(GroupAvgClaim(key),
                        CHOOSE x \in { GroupAvgClaim(k) : k \in Keys } : IsMaxAvgClaim(x))
              ELSE Num(0)
        ws == FAdd(FAdd(FAdd(FMul(Weight(config, "alpha"), cr),
                             FMul(Weight(config, "beta"), ps)),
                        FMul(Weight(config, "gamma"), ir)),
                   FMul(Weight(config, "delta"), an))
    IN  FinalizeScore(FSub(Num(100), FMul(ws, Num(100))))

\* the rounded mean of the per-record risk_scores of a group
RECURSIVE ScoreTotal(_)
ScoreTotal(I) ==
    IF I = {} THEN 0
    ELSE LET i == CHOOSE j \in I : TRUE
         IN  scored[i]["risk_score"] + ScoreTotal(I \ {i})

GroupMeanScore(key) ==
    RoundHalfEven(Fin(ScoreTotal(Members(key)), Cardinality(Members(key))))

\* C4: every group row of the aggregation pass carries the score the
\* formula gives for the ratios recomputed from the group's summed premium,
\* claims, insured count and incident count (premium_share and
\* avg_claim_norm relative to the group rows), finalized by NaN/Inf -> 50,
\* clamp, round; there is exactly one row per group.
C4_GroupScoreRecomputed ==
    pc = "aggregated" =>
        /\ Len(multi_dim_analysis) = Cardinality(Keys)
        /\ { GroupKey(multi_dim_analysis[g]) : g \in 1..Len(multi_dim_analysis) } = Keys
        /\ \A g \in 1..Len(multi_dim_analysis) :
              multi_dim_analysis[g]["risk_score"] =
                  GroupFormulaScore(GroupKey(multi_dim_analysis[g]))

\* a group of two records with finite ratios whose score differs from the
\* mean of its records' scores
C4_Witness ==
    /\ pc = "aggregated"
    /\ \E g \in 1..Len(multi_dim_analysis) :
          LET key == GroupKey(multi_dim_analysis[g])
          IN  /\ Cardinality(Members(key)) = 2
              /\ \A i \in Members(key) :
                    \A c \in FinancialColumns : IsFin(data[i][c]) /\ data[i][c].n > 0
              /\ multi_dim_analysis[g]["risk_score"] # GroupMeanScore(key)
              /\ multi_dim_analysis[g]["risk_score"] > 0

(***************************************************************************)
(* claims about the condition tree                                         *)
(***************************************************************************)
IsBuild == tree_op.op = "build"
IsQuery == tree_op.op = "query"

\* of the lines of the last build call, the rows the loop inserted
InsertedRows == { i \in 1..Len(tree_op.lines) : IsInserted(tree_op.lines[i]) }

RowPath(i) == LinePath(SplitLine(tree_op.lines[i]))

RowScore(i) ==
    LET parts == SplitLine(tree_op.lines[i]) IN ParseFloat(Raw(parts[Len(parts)]))

\* the last inserted row of the call with the path of row i
LastRowAt(i) ==
    CHOOSE j \in InsertedRows :
        /\ RowPath(j) = RowPath(i)
        /\ \A k \in InsertedRows : RowPath(k) = RowPath(i) => k <= j

\* C8 as stated: every node a build call inserts a row at stores the row's
\* score and the piecewise-linear surcharge of that score.
C8_NodeSurchargePiecewise ==
    IsBuild =>
        \A i \in InsertedRows :
            /\ root[RowPath(i)].score = <<RowScore(LastRowAt(i))>>
            /\ root[RowPath(i)].surcharge =
                  <<tree_calculate_surcharge(RowScore(LastRowAt(i)))>>

\* C8, amended: every node a build call inserts a row at stores the row's
\* score and the exponential surcharge calculate_nonlinear_surcharge of that
\* score under the weight of the call.
C8_NodeSurchargeNonlinear ==
    IsBuild =>
        \A i \in InsertedRows :
            /\ root[RowPath(i)].score = <<RowScore(LastRowAt(i))>>
            /\ root[RowPath(i)].surcharge =
                  <<calculate_nonlinear_surcharge(RowScore(LastRowAt(i)), tree_op.weight)>>

\* a row of score 20 was inserted under weight 1.0: its node holds the
\* exponential 388.5, not the piecewise 6.6
C8_Witness ==
    /\ IsBuild
    /\ tree_op.weight = 100000
    /\ \E i \in InsertedRows :
          /\ RowScore(i) = 2000
          /\ root[RowPath(i)].surcharge = <<38850>>
          /\ tree_calculate_surcharge(2000) = 660

\* the row as written: its province, its city and its three industry codes
RowProvince(line) == Strip(Raw(line[1]))
RowCity(line) == Strip(Raw(line[2]))
RowClaimPath(line) ==
    <<RowProvince(line), RowCity(line)>>
        \o IndustryPath(<<Code(line[3]), Code(line[4]), Code(line[5])>>)

\* the rows of the last build call that have a province and a city (and
\* the 10 columns a row needs)
CompleteRows ==
    { i \in 1..Len(tree_op.lines) :
        /\ Len(tree_op.lines[i]) >= 10
        /\ RowProvince(tree_op.lines[i]) # ""
        /\ RowCity(tree_op.lines[i]) # "" }

\* C9: a build call inserts each row at [province, city, industry1,
\* industry2, industry3] truncated at the first empty industry segment; a
\* row with an empty province or an empty city is skipped and leaves the
\* tree unchanged.
C9_RowPathsInserted ==
    IsBuild =>
        /\ DOMAIN root = DOMAIN tree_op.before \cup
              UNION { Prefixes(RowClaimPath(tree_op.lines[i])) : i \in CompleteRows }
        /\ \A i \in CompleteRows : root[RowClaimPath(tree_op.lines[i])].score # None
        /\ \A p \in DOMAIN tree_op.before :
              (\A i \in CompleteRows : RowClaimPath(tree_op.lines[i]) # p)
                  => root[p] = tree_op.before[p]

\* the nodes along the query path, from the first segment down, as far as
\* each has a child for the next segment
Reached(q) ==
    { k \in 1..Len(QueryPath(q)) :
        \A j \in 1..k : SubSeq(QueryPath(q), 1, j) \in DOMAIN root }

Carrying(q) ==
    { k \in Reached(q) : root[SubSeq(QueryPath(q), 1, k)].surcharge # None }

Deepest(S) == CHOOSE k \in S : \A j \in S : j <= k

\* C10: a query returns the surcharge of the deepest node carrying one
\* among the nodes reached along the query path (truncated at the first
\* empty industry segment) before the first segment without a child, and
\* 0.0 when none of them carries one.
C10_LongestPrefix ==
    IsQuery =>
        LET q == tree_op.query
        IN  /\ Carrying(q) = {} => tree_op.result = 0
            /\ Carrying(q) # {} =>
                  <<tree_op.result>> =
                      root[SubSeq(QueryPath(q), 1, Deepest(Carrying(q)))].surcharge

\* a query that stopped at a segment without a child, below a node without
\* a surcharge, and returned the surcharge of a node further up
C10_Witness ==
    /\ IsQuery
    /\ LET q == tree_op.query
       IN  /\ Reached(q) # {}
           /\ Deepest(Reached(q)) < Len(QueryPath(q))
           /\ Carrying(q) # {}
           /\ Deepest(Carrying(q)) < Deepest(Reached(q))
           /\ tree_op.result > 0

\* the row [Jiangsu, Taizhou, C, C033, C0331] and the lookup with the
\* unknown level-3 code C9999
C11_Row ==
    Line(Jiangsu, Taizhou, <<"C", "Manufacturing">>, <<"C033", "Metal">>,
         <<"C0331", "Structural">>, 9, <<"20">>)

C11_Query ==
    <<Jiangsu, Taizhou, <<"C", "Manufacturing">>, <<"C033", "Metal">>,
      <<"C9999", "Unknown">>>>

C11_Leaf == <<"Jiangsu", "Taizhou", "C", "C033", "C0331">>
C11_Parent == <<"Jiangsu", "Taizhou", "C", "C033">>

\* the tree holds the single row and nothing else
C11_SingleRowTree ==
    \E w \in TreeWeights : root = build_condition_tree(EmptyTree, <<C11_Row>>, w)

\* C11 as stated: in the tree built from the single row, the lookup with
\* the unknown level-3 code returns the surcharge of the C033 node, which is
\* neither the surcharge of the C0331 leaf nor the default 0.0.
C11_UnknownLevel3ReturnsParent ==
    (IsQuery /\ tree_op.query = C11_Query /\ C11_SingleRowTree) =>
        /\ <<tree_op.result>> = root[C11_Parent].surcharge
        /\ <<tree_op.result>> # root[C11_Leaf].surcharge
        /\ tree_op.result # 0

\* C11, amended: the lookup with the unknown level-3 code returns the
\* surcharge of the C033 node when a row was inserted at that node itself;
\* in the tree built from the single leaf row the C033 node carries no
\* surcharge, no node on the way does, and the lookup returns the default
\* 0.0, never the surcharge of the C0331 leaf.
C11_UnknownLevel3 ==
    (IsQuery /\ tree_op.query = C11_Query) =>
        /\ (C11_Parent \in DOMAIN root /\ root[C11_Parent].surcharge # None)
              => <<tree_op.result>> = root[C11_Parent].surcharge
        /\ C11_SingleRowTree =>
              /\ root[C11_Parent].surcharge = None
              /\ root[C11_Leaf].surcharge # <<0>>
              /\ tree_op.result = 0

\* the lookup was made on the tree built from the single row: 0.0 came back
\* although the leaf holds a surcharge
C11_Witness ==
    /\ IsQuery
    /\ tree_op.query = C11_Query
    /\ C11_SingleRowTree
    /\ root[C11_Leaf].surcharge \in {<<38850>>, <<19430>>}
    /\ tree_op.result = 0

(***************************************************************************)
(* TreeAnalysisCalculator: the aggregation tree                            *)
(*                                                                         *)
(* A record (a DataFrame row) is a function from its columns to values; a  *)
(* dimension value is <<v>> and a null (NaN/None) is None.  The tree is    *)
(* the function from the path of each node (the keys from the root) to     *)
(* the node.                                                               *)
(***************************************************************************)
HasChildren(tree, p) ==
    \E q \in DOMAIN tree : Len(q) = Len(p) + 1 /\ SubSeq(q, 1, Len(p)) = p

\* the set of paths as a sequence in the order the nodes were created
RECURSIVE InOrder(_, _)
InOrder(tree, S) ==
    IF S = {} THEN <<>>
    ELSE LET first == CHOOSE q \in S : \A r \in S : tree[q].seq <= tree[r].seq
         IN  <<first>> \o InOrder(tree, S \ {first})

\* node.children.values() of the node at p, as paths
ChildrenOf(tree, p) ==
    InOrder(tree, { q \in DOMAIN tree :
                       Len(q) = Len(p) + 1 /\ SubSeq(q, 1, Len(p)) = p })

\* the loop over the dimensions for one record: a dimension that is not a
\* column of the record or is null in it is passed over, and the loop goes
\* on with the next dimension
RECURSIVE WalkDimensions(_, _, _, _)
WalkDimensions(tree, current, row, dims) ==
    IF dims = <<>> THEN [tree |-> tree, current |-> current]
    ELSE LET dim == Head(dims)
         IN  IF dim \in DOMAIN row /\ row[dim] # None
             THEN LET value == row[dim][1]
                      child == Append(current, value)
                      grown == IF child \in DOMAIN tree THEN tree
                               ELSE tree @@ (child :> CalcTreeNode(dim, <<value>>,
                                                       Cardinality(DOMAIN tree)))
                  IN  WalkDimensions(grown, child, row, Tail(dims))
             ELSE WalkDimensions(tree, current, row, Tail(dims))

\* one pass of the loop over the records
BuildRecord(tree, row, dims) ==
    LET w == WalkDimensions(tree, <<>>, row, dims)
    IN  IF ~HasChildren(w.tree, w.current) /\ w.current # <<>>
        THEN [w.tree EXCEPT ![w.current].data = Append(@, row)]
        ELSE w.tree

RECURSIVE BuildRecords(_, _, _)
BuildRecords(tree, rows, dims) ==
    IF rows = <<>> THEN tree
    ELSE BuildRecords(BuildRecord(tree, Head(rows), dims), Tail(rows), dims)

\* build_tree(data, dimensions): the root is reset first
build_tree(rows, dims) == BuildRecords(EmptyCalcTree, rows, dims)

score_field == "risk_score"

\* np.mean of a non-empty list of floats
RECURSIVE FSum(_)
FSum(xs) == IF xs = <<>> THEN Num(0) ELSE FAdd(Head(xs), FSum(Tail(xs)))

Mean(xs) == FDiv(FSum(xs), Num(Len(xs)))

\* [item.get(score_field, 0) for item in node.data if score_field in item]
RECURSIVE ItemScores(_)
ItemScores(items) ==
    IF items = <<>> THEN <<>>
    ELSE (IF score_field \in DOMAIN Head(items)
          THEN <<Num(Head(items)[score_field])>> ELSE <<>>)
         \o ItemScores(Tail(items))

RECURSIVE Present(_)
Present(opts) ==
    IF opts = <<>> THEN <<>>
    ELSE (IF Head(opts) # None THEN <<Head(opts)[1]>> ELSE <<>>) \o Present(Tail(opts))

\* calculate_node_score(node): the score the node holds afterwards
RECURSIVE NodeScore(_, _)
NodeScore(tree, p) ==
    IF ~HasChildren(tree, p) /\ tree[p].data # <<>>
    THEN LET scores == ItemScores(tree[p].data)
         IN  IF scores # <<>> THEN <<Mean(scores)>> ELSE tree[p].score
    ELSE IF HasChildren(tree, p)
    THEN LET children == ChildrenOf(tree, p)
             scores == Present([i \in 1..Len(children) |-> NodeScore(tree, children[i])])
         IN  IF scores # <<>> THEN <<Mean(scores)>> ELSE tree[p].score
    ELSE tree[p].score

\* the scores of all the records in the subtree of p
RECURSIVE SubtreeScores(_, _)
SubtreeScores(tree, nodes) ==
    IF nodes = <<>> THEN <<>>
    ELSE ItemScores(tree[Head(nodes)].data) \o SubtreeScores(tree, Tail(nodes))

\* calculate_tree_scores where a node gets the mean over the records below it
calculate_tree_scores_by_record(tree) ==
    [p \in DOMAIN tree |->
        LET below == InOrder(tree, { q \in DOMAIN tree :
                                       Len(q) >= Len(p) /\ SubSeq(q, 1, Len(p)) = p })
            scores == SubtreeScores(tree, below)
        IN  [tree[p] EXCEPT !.score = IF scores # <<>> THEN <<Mean(scores)>> ELSE @]]

\* calculate_tree_scores(): every node is reached from the root
calculate_tree_scores(tree) ==
    [p \in DOMAIN tree |-> [tree[p] EXCEPT !.score = NodeScore(tree, p)]]

\* TreeAnalysisCalculator.calculate_surcharge on a float score, in
\* hundredths: round(base / 100, 2) is base rounded to an integer
calculate_surcharge_of(score) ==
    IF score.n >= 100 * score.d THEN 0
    ELSE IF score.n <= 0 THEN 100000
    ELSE LET base ==
                 IF score.n >= 60 * score.d
                 THEN FAdd(Num(40), FMul(FSub(Num(100), score), Num(3)))
                 ELSE IF score.n >= 40 * score.d
                 THEN FAdd(Num(160), FMul(FSub(Num(60), score), Num(8)))
                 ELSE FAdd(Num(320), FMul(FSub(Num(40), score), Num(17)))
         IN  RoundHalfEven(base)

\* calculate_surcharges that gives a surcharge to the leaves only
calculate_surcharges_leaves(tree) ==
    [p \in DOMAIN tree |->
        IF tree[p].score # None /\ ~HasChildren(tree, p)
        THEN [tree[p] EXCEPT !.surcharge = <<calculate_surcharge_of(tree[p].score[1])>>]
        ELSE tree[p]]

\* calculate_surcharges(): every node with a score gets its surcharge
calculate_surcharges(tree) ==
    [p \in DOMAIN tree |->
        IF tree[p].score # None
        THEN [tree[p] EXCEPT !.surcharge = <<calculate_surcharge_of(tree[p].score[1])>>]
        ELSE tree[p]]

NoValues == [c \in {} |-> None]

Min(a, b) == IF a < b THEN a ELSE b

\* row[dimensions[i]] = path[i] for the path values that have a dimension
DimensionColumns(path, dims) ==
    LET n == Min(Len(path), Len(dims))
    IN  [c \in { dims[i] : i \in 1..n } |->
            <<path[CHOOSE i \in 1..n : dims[i] = c /\ \A j \in 1..n : dims[j] = c => j <= i]>>]

\* new_values that takes the child's score and leaves out its surcharge
ChildValuesScoreOnly(node, values) ==
    (IF node.score # None THEN (node.name \o "_score") :> node.score ELSE NoValues)
    @@ values

\* new_values of a child: the values of the parent and the child's own
\* "<name>_score" and "<name>_surcharge" when it has them
ChildValues(node, values) ==
    (IF node.surcharge # None THEN (node.name \o "_surcharge") :> node.surcharge
     ELSE NoValues)
    @@ (IF node.score # None THEN (node.name \o "_score") :> node.score ELSE NoValues)
    @@ values

\* traverse_tree(node, path, values): the rows it appends to results
RECURSIVE TraverseTree(_, _, _, _)
RECURSIVE TraverseChildren(_, _, _, _)
TraverseTree(tree, path, values, dims) ==
    IF ~HasChildren(tree, path)
    THEN <<values
             @@ ("surcharge" :> tree[path].surcharge)
             @@ ("risk_score" :> tree[path].score)
             @@ DimensionColumns(path, dims)>>
    ELSE TraverseChildren(tree, ChildrenOf(tree, path), values, dims)

TraverseChildren(tree, children, values, dims) ==
    IF children = <<>> THEN <<>>
    ELSE TraverseTree(tree, Head(children), ChildValues(tree[Head(children)], values), dims)
         \o TraverseChildren(tree, Tail(children), values, dims)

\* tree_to_dataframe(dimensions=dims): the rows of the DataFrame
tree_to_dataframe(tree, dims) == TraverseTree(tree, <<>>, NoValues, dims)

MaxRecords == 3

\* records with both dimensions, with a null first, a null second and two
\* null dimensions; the scores are multiples of 4
CalcRecordPool ==
    LET Record(a, b, score) == ("A" :> a) @@ ("B" :> b) @@ ("risk_score" :> score)
    IN
    { Record(<<"a1">>, <<"b1">>, 80), Record(<<"a1">>, <<"b2">>, 60),
      Record(<<"a1">>, <<"b1">>, 40), Record(<<"a2">>, <<"b1">>, 20),
      Record(<<"a2">>, <<"b2">>, 100), Record(<<"a1">>, None, 60),
      Record(None, <<"b1">>, 40), Record(None, None, 80),
      Record(<<"a2">>, <<"b1">>, 0) }

\* [A, B], [A] alone, and [A, C, B] with a dimension no record has
DimensionLists == { <<"A", "B">>, <<"A">>, <<"A", "C", "B">> }

\* TreeAnalysisCalculator(config, logger): self.root = TreeNode("root")
InitCalc ==
    /\ IdleCalc
    /\ IdleCalcRest

\* build_tree(data, dimensions).  The call resets the root before it
\* inserts anything, so the tree it leaves does not depend on the calls
\* made before it: the first call on a calculator stands for every call
BuildTree ==
    /\ calc_op.op = "none"
    /\ \E rows \in SeqsUpTo(CalcRecordPool, MaxRecords), dims \in DimensionLists :
          /\ calc_root' = build_tree(rows, dims)
          /\ calc_built' = [records |-> rows, dimensions |-> dims]
    /\ calc_op' = [op |-> "build_tree"]
    /\ calc_done' = NothingDone
    /\ UNCHANGED calcRest

\* calculate_tree_scores()
CalculateTreeScores ==
    /\ calc_root' = calculate_tree_scores(calc_root)
    /\ calc_op' = [op |-> "calculate_tree_scores"]
    /\ calc_done' = [calc_done EXCEPT !.scores = TRUE]
    /\ UNCHANGED <<calc_built, calcRest>>

\* calculate_surcharges()
CalculateSurcharges ==
    /\ calc_root' = calculate_surcharges(calc_root)
    /\ calc_op' = [op |-> "calculate_surcharges"]
    /\ calc_done' = [calc_done EXCEPT !.surcharges = calc_done.scores]
    /\ UNCHANGED <<calc_built, calcRest>>

\* tree_to_dataframe(dimensions=dims)
TreeToDataframe ==
    /\ \E dims \in DimensionLists :
          calc_op' = [op |-> "tree_to_dataframe", dimensions |-> dims,
                      rows |-> tree_to_dataframe(calc_root, dims)]
    /\ UNCHANGED <<calc_root, calc_done, calc_built, calcRest>>

NextCalc == BuildTree \/ CalculateTreeScores \/ CalculateSurcharges \/ TreeToDataframe

SpecCalc == InitCalc /\ [][NextCalc]_vars

(***************************************************************************)
(* claims about the aggregation tree                                       *)
(***************************************************************************)
CalcNodes == DOMAIN calc_root \ {<<>>}

BuiltRecords == { calc_built.records[i] : i \in 1..Len(calc_built.records) }

Missing(row, dim) == dim \notin DOMAIN row \/ row[dim] = None

\* the path of a record that stops at the first missing dimension
RECURSIVE StoppedPath(_, _)
StoppedPath(row, dims) ==
    IF dims = <<>> \/ Missing(row, Head(dims)) THEN <<>>
    ELSE <<row[Head(dims)][1]>> \o StoppedPath(row, Tail(dims))

\* C12: build_tree stops the path of a record at the first dimension that
\* is missing or null in it: every node lies on the stopped path of some
\* record, so a node at depth k is keyed by a value of the k-th dimension
\* and has that dimension as its name.
C12_PathStopsAtFirstMissing ==
    \A p \in CalcNodes :
        /\ \E row \in BuiltRecords :
              p \in Prefixes(StoppedPath(row, calc_built.dimensions))
        /\ calc_root[p].name = calc_built.dimensions[Len(p)]
        /\ \E row \in BuiltRecords :
              ~Missing(row, calc_root[p].name) /\ row[calc_root[p].name] = calc_root[p].value

\* the values of the dimensions a record has, in dimension order
RECURSIVE PresentPath(_, _)
PresentPath(row, dims) ==
    IF dims = <<>> THEN <<>>
    ELSE (IF Missing(row, Head(dims)) THEN <<>> ELSE <<row[Head(dims)][1]>>)
         \o PresentPath(row, Tail(dims))

\* C13: after build_tree, records are held only by leaves: a node with a
\* non-empty data list has no children, and each record it holds is one
\* whose own path ends at the node.
C13_DataOnlyAtLeaves ==
    \A p \in DOMAIN calc_root :
        calc_root[p].data # <<>> =>
            /\ ~HasChildren(calc_root, p)
            /\ \A i \in 1..Len(calc_root[p].data) :
                  PresentPath(calc_root[p].data[i], calc_built.dimensions) = p

RECURSIVE SumScores(_)
SumScores(items) ==
    IF items = <<>> THEN 0 ELSE Head(items).risk_score + SumScores(Tail(items))

ChildSet(p) ==
    { q \in DOMAIN calc_root : Len(q) = Len(p) + 1 /\ SubSeq(q, 1, Len(p)) = p }

RECURSIVE SumChildScores(_)
SumChildScores(S) ==
    IF S = {} THEN Num(0)
    ELSE LET q == CHOOSE x \in S : TRUE
         IN  FAdd(calc_root[q].score[1], SumChildScores(S \ {q}))

\* C14: after calculate_tree_scores, a leaf holding records has the mean of
\* the scores of its records, and a node with children has the unweighted
\* mean of the scores of its children.
C14_ScoreIsMean ==
    calc_done.scores =>
        \A p \in DOMAIN calc_root :
            /\ (~HasChildren(calc_root, p) /\ calc_root[p].data # <<>>) =>
                  calc_root[p].score =
                      <<Fin(SumScores(calc_root[p].data), Len(calc_root[p].data))>>
            /\ HasChildren(calc_root, p) =>
                  /\ \A q \in ChildSet(p) : calc_root[q].score # None
                  /\ calc_root[p].score =
                        <<FDiv(SumChildScores(ChildSet(p)), Num(Cardinality(ChildSet(p))))>>

\* the records stored under the node at p
RecordsUnder(p) ==
    { <<q, i>> \in (DOMAIN calc_root) \X (1..(MaxRecords + 1)) :
        /\ Len(q) >= Len(p) /\ SubSeq(q, 1, Len(p)) = p
        /\ i <= Len(calc_root[q].data) }

RECURSIVE SumRecordsUnder(_)
SumRecordsUnder(S) ==
    IF S = {} THEN 0
    ELSE LET x == CHOOSE y \in S : TRUE
         IN  calc_root[x[1]].data[x[2]].risk_score + SumRecordsUnder(S \ {x})

\* a parent of two leaves, one of them holding two records, whose score is
\* the mean of the two leaf scores and not the mean over the three records
C14_Witness ==
    /\ calc_done.scores
    /\ \E p \in DOMAIN calc_root :
          /\ Cardinality(ChildSet(p)) = 2
          /\ \A q \in ChildSet(p) : ~HasChildren(calc_root, q)
          /\ \E q \in ChildSet(p) : Len(calc_root[q].data) = 2
          /\ Cardinality(RecordsUnder(p)) = 3
          /\ calc_root[p].score # <<Fin(SumRecordsUnder(RecordsUnder(p)), 3)>>

\* C15: after build_tree, calculate_tree_scores and calculate_surcharges in
\* that order, every node with a score, the root included, has the
\* piecewise surcharge of its own score, and every node without a score
\* has no surcharge.
C15_SurchargeAtEveryLevel ==
    calc_done.surcharges =>
        \A p \in DOMAIN calc_root :
            IF calc_root[p].score # None
            THEN calc_root[p].surcharge = <<calculate_surcharge_of(calc_root[p].score[1])>>
            ELSE calc_root[p].surcharge = None

\* a tree of three levels whose root, inner node and leaf hold three
\* different surcharges
C15_Witness ==
    /\ calc_done.surcharges
    /\ \E p \in DOMAIN calc_root :
          /\ Len(p) = 2
          /\ calc_root[<<>>].surcharge # None
          /\ calc_root[p].surcharge # None
          /\ calc_root[<<>>].surcharge # calc_root[SubSeq(p, 1, 1)].surcharge
          /\ calc_root[SubSeq(p, 1, 1)].surcharge # calc_root[p].surcharge
          /\ calc_root[<<>>].surcharge # calc_root[p].surcharge

CalcLeaves == { p \in CalcNodes : ~HasChildren(calc_root, p) }

StoredRecords ==
    { calc_root[p].data[i] : <<p, i>> \in RecordsUnder(<<>>) }

RowValue(row, c) == IF c \in DOMAIN row THEN row[c] ELSE None

\* C16: tree_to_dataframe on a tree built with the dimensions [A, B] gives
\* one row per leaf, no row for an empty record set, and the (A, B) values
\* of the rows are exactly the (A, B) pairs of the records in the tree.
C16_RoundTrip ==
    (/\ calc_op.op = "tree_to_dataframe"
     /\ calc_op.dimensions = <<"A", "B">>
     /\ calc_built.dimensions = <<"A", "B">>) =>
        /\ Len(calc_op.rows) = Cardinality(CalcLeaves)
        /\ calc_built.records = <<>> => calc_op.rows = <<>>
        /\ { <<RowValue(calc_op.rows[i], "A"), RowValue(calc_op.rows[i], "B")>> :
                i \in 1..Len(calc_op.rows) }
             = { <<row["A"], row["B"]>> : row \in StoredRecords }

(***************************************************************************)
(* RiskScoreLookup and RiskScoreApplication: the fallback cascade          *)
(*                                                                         *)
(* The field names stand for the columns of the program: province is       *)
(* '省份', policy '新单续保', industry1 '行业1级', industry2 '行业2级' and *)
(* disability '伤残'.  The match types stand for its labels: exact is      *)
(* '精确匹配', industry1_partial '行业1级匹配', basic '基本匹配', province *)
(* '省份匹配', industry '行业匹配' and no_match '无匹配'.  A dataset is    *)
(* its set of columns and its sequence of rows; a query is a function from *)
(* the fields it supplies to their values.                                 *)
(***************************************************************************)
\* the conditions of the query: its keys that are columns of the dataset
QueryConditions(ds, q) == { k \in DOMAIN q : k \in ds.columns }

\* DataFrame.query(expr) raises for an empty expression and for a name
\* that is no column of the frame
QueryRaises(ds, keys) == keys = {} \/ ~(keys \subseteq ds.columns)

\* DataFrame.query of the conjunction of key == q[key] over the keys
QueryRows(ds, q, keys) ==
    SelectSeq(ds.rows, LAMBDA r : \A k \in keys : r[k] = q[k])

\* the dict a tier returns: result['risk_score'].mean() over the rows
MatchResult(type, rows) ==
    <<[match_type |-> type, records |-> rows,
       avg_score |-> SeriesMean([i \in 1..Len(rows) |-> rows[i].risk_score])]>>

\* the last tier: industry1 alone, then None
IndustryTier(ds, q) ==
    IF "industry1" \in DOMAIN q
    THEN IF QueryRaises(ds, {"industry1"}) THEN None
         ELSE IF QueryRows(ds, q, {"industry1"}) # <<>>
         THEN MatchResult("industry", QueryRows(ds, q, {"industry1"}))
         ELSE None
    ELSE None

\* province alone
ProvinceTier(ds, q) ==
    IF "province" \in DOMAIN q
    THEN IF QueryRaises(ds, {"province"}) THEN None
         ELSE IF QueryRows(ds, q, {"province"}) # <<>>
         THEN MatchResult("province", QueryRows(ds, q, {"province"}))
         ELSE IndustryTier(ds, q)
    ELSE IndustryTier(ds, q)

\* province and policy, those of the two the query has
BasicTier(ds, q) ==
    LET basic_conditions == {"province", "policy"} \cap DOMAIN q
    IN  IF basic_conditions # {}
        THEN IF QueryRaises(ds, basic_conditions) THEN None
             ELSE IF QueryRows(ds, q, basic_conditions) # <<>>
             THEN MatchResult("basic", QueryRows(ds, q, basic_conditions))
             ELSE ProvinceTier(ds, q)
        ELSE ProvinceTier(ds, q)

\* the conditions without the one on industry2, when the query has both
\* industry levels
PartialTier(ds, q) ==
    IF "industry2" \in DOMAIN q /\ "industry1" \in DOMAIN q
    THEN LET partial_conditions == QueryConditions(ds, q) \ {"industry2"}
         IN  IF QueryRaises(ds, partial_conditions) THEN None
             ELSE IF QueryRows(ds, q, partial_conditions) # <<>>
             THEN MatchResult("industry1_partial", QueryRows(ds, q, partial_conditions))
             ELSE BasicTier(ds, q)
    ELSE BasicTier(ds, q)

\* lookup_risk_score(query_data): None, or <<the dict returned>>; an
\* exception inside the try block is caught and None is returned
lookup_risk_score(ds, q) ==
    IF QueryConditions(ds, q) = {} THEN None
    ELSE IF QueryRows(ds, q, QueryConditions(ds, q)) # <<>>
    THEN MatchResult("exact", QueryRows(ds, q, QueryConditions(ds, q)))
    ELSE PartialTier(ds, q)

\* the query process_data builds from an item
ItemQuery(item) ==
    [k \in {"province", "industry1", "industry2", "disability", "policy"} |->
        IF k = "industry2" /\ "industry2" \notin DOMAIN item THEN "" ELSE item[k]]

\* the loop body without the default: an item without a match is copied
ProcessItemNoDefault(ds, item) ==
    LET result == lookup_risk_score(ds, ItemQuery(item))
    IN  IF result # None
        THEN ("risk_score_out" :> <<result[1].avg_score>>)
             @@ ("match_type" :> result[1].match_type)
             @@ ("match_count" :> Len(result[1].records)) @@ item
        ELSE item

\* one pass of the loop of process_data
ProcessItem(ds, item) ==
    LET result == lookup_risk_score(ds, ItemQuery(item))
    IN  IF result # None
        THEN ("risk_score_out" :> <<result[1].avg_score>>)
             @@ ("match_type" :> result[1].match_type)
             @@ ("match_count" :> Len(result[1].records)) @@ item
        ELSE ("risk_score_out" :> <<Num(50)>>) @@ ("match_type" :> "no_match")
             @@ ("match_count" :> 0) @@ item

\* process_data(data)
process_data(ds, items) == [i \in 1..Len(items) |-> ProcessItem(ds, items[i])]

MaxData == 2
MaxItems == 1

Fields == {"province", "policy", "industry1", "industry2", "disability"}

ScoredRowPool ==
    LET ScoredRow(province, policy, industry1, industry2, disability, score) ==
            ("province" :> province) @@ ("policy" :> policy)
            @@ ("industry1" :> industry1) @@ ("industry2" :> industry2)
            @@ ("disability" :> disability) @@ ("risk_score" :> score)
    IN
    { ScoredRow("JS", "new", "C", "C033", "d10", 80),
      ScoredRow("JS", "renewal", "C", "C034", "d10", 60),
      ScoredRow("ZJ", "new", "N", "N078", "d10", 40),
      ScoredRow("JS", "new", "N", "N078", "d9", 20),
      ScoredRow("ZJ", "renewal", "C", "C033", "d9", 100) }

\* all five fields; the columns of the sheet the loader looks for (policy,
\* disability, industry2); a dataset without the policy column
ColumnSets ==
    { Fields, {"policy", "disability", "industry2"},
      {"province", "industry1", "industry2"} }

\* queries with all the fields and with some of them
LookupQueries ==
    LET FieldValues(k) ==
            CASE k = "province" -> {"JS", "AH"}
              [] k = "policy" -> {"new", "renewal"}
              [] k = "industry1" -> {"C", "X"}
              [] k = "industry2" -> {"C033", "C999"}
              [] k = "disability" -> {"d10", "d0"}
        QueriesOver(keys) ==
            { q \in [keys -> UNION { FieldValues(k) : k \in keys }] :
                \A k \in keys : q[k] \in FieldValues(k) }
    IN
    UNION { QueriesOver(keys) :
              keys \in { Fields, {"province", "policy", "industry1"},
                         {"province", "industry1", "industry2"},
                         {"industry1", "industry2"}, {"industry1"}, {"policy"},
                         {"province"}, {"disability"} } }

\* items of the input file, one of them without the industry2 column
ItemPool ==
    { [province |-> "JS", policy |-> "new", industry1 |-> "C",
       industry2 |-> "C033", disability |-> "d10"],
      [province |-> "JS", policy |-> "renewal", industry1 |-> "C",
       industry2 |-> "C999", disability |-> "d0"],
      [province |-> "AH", policy |-> "new", industry1 |-> "X",
       industry2 |-> "C999", disability |-> "d0"],
      [province |-> "AH", policy |-> "new", industry1 |-> "C", disability |-> "d10"] }

\* RiskScoreLookup(json_file_path): load_risk_data reads the dataset
InitLookup ==
    /\ \E cols \in ColumnSets, rows \in SeqsUpTo(ScoredRowPool, MaxData) :
          risk_data = [columns |-> cols \cup {"risk_score"},
                       rows |-> [i \in 1..Len(rows) |->
                                    Restrict(rows[i], cols \cup {"risk_score"})]]
    /\ lookup_op = [op |-> "none"]
    /\ IdleLookupRest

\* a call lookup_risk_score(query_data)
LookupRiskScore ==
    /\ \E q \in LookupQueries :
          lookup_op' = [op |-> "lookup", query |-> q,
                        result |-> lookup_risk_score(risk_data, q)]
    /\ UNCHANGED <<risk_data, lookupRest>>

\* a call process_data(data)
ProcessData ==
    /\ \E items \in SeqsUpTo(ItemPool, MaxItems) :
          lookup_op' = [op |-> "process", data |-> items,
                        processed |-> process_data(risk_data, items)]
    /\ UNCHANGED <<risk_data, lookupRest>>

NextLookup == LookupRiskScore \/ ProcessData

SpecLookup == InitLookup /\ [][NextLookup]_vars

(***************************************************************************)
(* claims about the fallback cascade                                       *)
(***************************************************************************)
TierOrder == <<"exact", "industry1_partial", "basic", "province", "industry">>

\* the query fields a tier compares
TierFields(q, t) ==
    CASE t = "exact" -> DOMAIN q
      [] t = "industry1_partial" ->
            IF {"industry1", "industry2"} \subseteq DOMAIN q
            THEN DOMAIN q \ {"industry2"} ELSE {}
      [] t = "basic" -> {"province", "policy"} \cap DOMAIN q
      [] t = "province" -> {"province"} \cap DOMAIN q
      [] t = "industry" -> {"industry1"} \cap DOMAIN q

\* the records matching the predicate of a tier: the conjunction over the
\* fields of the tier that the dataset has; a tier none of whose fields is
\* a column matches nothing
TierRecords(q, t) ==
    LET keys == TierFields(q, t) \cap risk_data.columns
    IN  IF keys = {} THEN <<>>
        ELSE SelectSeq(risk_data.rows, LAMBDA r : \A k \in keys : r[k] = q[k])

MatchingTiers(q) == { i \in 1..Len(TierOrder) : TierRecords(q, TierOrder[i]) # <<>> }

FirstTier(q) == CHOOSE i \in MatchingTiers(q) : \A j \in MatchingTiers(q) : i <= j

RECURSIVE SumRiskScores(_)
SumRiskScores(rows) ==
    IF rows = <<>> THEN 0 ELSE Head(rows).risk_score + SumRiskScores(Tail(rows))

\* C17: lookup_risk_score returns the first tier, in the order exact,
\* industry-1 partial (only for a query with both industry levels), basic,
\* province, industry, whose predicate matches a record, with the label of
\* that tier, the records matching it and the mean of their risk_score; a
\* tier with matches is never passed over for a later one.
C17_FirstMatchingTier ==
    lookup_op.op = "lookup" =>
        LET q == lookup_op.query
        IN  MatchingTiers(q) # {} =>
              LET t == TierOrder[FirstTier(q)]
                  rows == TierRecords(q, t)
              IN  lookup_op.result =
                      <<[match_type |-> t, records |-> rows,
                         avg_score |-> Fin(SumRiskScores(rows), Len(rows))]>>

\* C18: when no tier matches a record, lookup_risk_score returns None, and
\* process_data gives the item the default score 50, the match type
\* no_match and the count 0; every processed item carries a risk score.
C18_NoMatchDefault ==
    /\ lookup_op.op = "lookup" =>
          (MatchingTiers(lookup_op.query) = {} => lookup_op.result = None)
    /\ lookup_op.op = "process" =>
          /\ Len(lookup_op.processed) = Len(lookup_op.data)
          /\ \A i \in 1..Len(lookup_op.data) :
                LET item == lookup_op.processed[i]
                IN  /\ "risk_score_out" \in DOMAIN item
                    /\ item.risk_score_out # None
                    /\ MatchingTiers(ItemQuery(lookup_op.data[i])) = {} =>
                          /\ item.risk_score_out = <<Num(50)>>
                          /\ item.match_type = "no_match"
                          /\ item.match_count = 0

\* an item none of whose tiers matches a record of a dataset with records
\* was processed and got the default
C18_Witness ==
    /\ lookup_op.op = "process"
    /\ risk_data.rows # <<>>
    /\ risk_data.columns = Fields \cup {"risk_score"}
    /\ \E i \in 1..Len(lookup_op.data) :
          /\ MatchingTiers(ItemQuery(lookup_op.data[i])) = {}
          /\ lookup_op.processed[i].risk_score_out = <<Num(50)>>
          /\ lookup_op.processed[i].match_type = "no_match"

(***************************************************************************)
(* the industry hierarchy index (data_preprocessing.py and                 *)
(* ExactMatchApplication in risk_score_application.py)                     *)
(*                                                                         *)
(* A node of the classification is a record with code, name, level and,    *)
(* when it has the key, children: a sequence of nodes.  The index is a     *)
(* function from codes to entries.  The result keys level1..level4 stand   *)
(* for '行业1级'..'行业4级'.                                               *)
(***************************************************************************)
HierarchyItem(item) == [code |-> item.code, name |-> item.name, level |-> item.level]

\* traverse(items, parent_code, parent_hierarchy) on the lookup so far;
\* parent_hierarchy None or empty starts a new hierarchy
RECURSIVE Traverse(_, _, _, _)
Traverse(lookup, items, parent_code, parent_hierarchy) ==
    IF items = <<>> THEN lookup
    ELSE LET item == Head(items)
             hierarchy == IF parent_hierarchy # <<>>
                          THEN parent_hierarchy \o <<HierarchyItem(item)>>
                          ELSE <<HierarchyItem(item)>>
             entry == [name |-> item.name, level |-> item.level,
                       parent_code |-> parent_code, hierarchy |-> hierarchy]
             stored == (item.code :> entry) @@ lookup
             below == IF "children" \in DOMAIN item /\ item.children # <<>>
                      THEN Traverse(stored, item.children, <<item.code>>, hierarchy)
                      ELSE stored
         IN  Traverse(below, Tail(items), parent_code, parent_hierarchy)

\* build_industry_lookup whose recursion passes neither the parent's code
\* nor its hierarchy on: every node is indexed like a top-level one
RECURSIVE FlatItems(_)
FlatItems(items) ==
    IF items = <<>> THEN <<>>
    ELSE <<HierarchyItem(Head(items))>>
         \o (IF "children" \in DOMAIN Head(items) THEN FlatItems(Head(items).children)
             ELSE <<>>)
         \o FlatItems(Tail(items))

build_industry_lookup_flat(forest) ==
    Traverse([c \in {} |-> None], FlatItems(forest), None, <<>>)

\* build_industry_lookup(industry_data), the same in both modules
build_industry_lookup(forest) == Traverse([c \in {} |-> None], forest, None, <<>>)

NoLabels == [level1 |-> "", level2 |-> "", level3 |-> "", level4 |-> ""]

LevelKey(level) ==
    CASE level = 1 -> "level1" [] level = 2 -> "level2"
      [] level = 3 -> "level3" [] level = 4 -> "level4"

\* the loop over the hierarchy: each item of level 1..4 sets its label
RECURSIVE FillLabels(_, _)
FillLabels(result, hierarchy) ==
    IF hierarchy = <<>> THEN result
    ELSE LET item == Head(hierarchy)
             filled == IF item.level \in 1..4
                       THEN [result EXCEPT ![LevelKey(item.level)] =
                                               item.code \o "|" \o item.name]
                       ELSE result
         IN  FillLabels(filled, Tail(hierarchy))

\* a lookup that does not test whether the code is in the index
get_industry_hierarchy_unchecked(industry_code, lookup) ==
    IF industry_code \in DOMAIN lookup
    THEN FillLabels(NoLabels, lookup[industry_code].hierarchy)
    ELSE [NoLabels EXCEPT !.level1 = industry_code \o "|"]

\* FillLabels that writes every label at level1
RECURSIVE FillFirstLabel(_, _)
FillFirstLabel(result, hierarchy) ==
    IF hierarchy = <<>> THEN result
    ELSE FillFirstLabel([result EXCEPT !.level1 =
                            Head(hierarchy).code \o "|" \o Head(hierarchy).name],
                        Tail(hierarchy))

get_industry_hierarchy_flat(industry_code, lookup) ==
    IF industry_code \notin DOMAIN lookup THEN NoLabels
    ELSE FillFirstLabel(NoLabels, lookup[industry_code].hierarchy)

\* data_preprocessing.get_industry_hierarchy(industry_code, industry_lookup)
get_industry_hierarchy(industry_code, lookup) ==
    IF industry_code \notin DOMAIN lookup THEN NoLabels
    ELSE FillLabels(NoLabels, lookup[industry_code].hierarchy)

\* ExactMatchApplication.get_industry_hierarchy(industry_code): an empty
\* code is answered before the index is looked at
app_get_industry_hierarchy(industry_code, lookup) ==
    IF industry_code = "" \/ industry_code \notin DOMAIN lookup THEN NoLabels
    ELSE FillLabels(NoLabels, lookup[industry_code].hierarchy)

\* classifications of up to two level-1 nodes, level = depth, codes unique;
\* a leaf is an item without the key children, the level-3 item C0331
\* comes without the key, with no children and with one child
Classifications ==
    LET IndustryNode(code, name, level, children) ==
            [code |-> code, name |-> name, level |-> level, children |-> children]
        IndustryLeaf(code, name, level) ==
            [code |-> code, name |-> name, level |-> level]
        Level3Nodes ==
            { IndustryLeaf("C0331", "Structural", 3),
              IndustryNode("C0331", "Structural", 3, <<>>),
              IndustryNode("C0331", "Structural", 3,
                           <<IndustryLeaf("C03311", "Frames", 4)>>) }
        Level2Nodes ==
            { IndustryNode("C033", "Metal", 2, <<>>) }
            \cup { IndustryNode("C033", "Metal", 2, <<n>>) : n \in Level3Nodes }
        ManufacturingNodes ==
            { IndustryNode("C", "Manufacturing", 1, <<>>),
              IndustryNode("C", "Manufacturing", 1,
                           <<IndustryLeaf("C034", "Equipment", 2)>>) }
            \cup { IndustryNode("C", "Manufacturing", 1, <<n>>) : n \in Level2Nodes }
            \cup { IndustryNode("C", "Manufacturing", 1,
                                <<n, IndustryLeaf("C034", "Equipment", 2)>>) :
                     n \in Level2Nodes }
        UtilitiesNodes ==
            { IndustryLeaf("N", "Utilities", 1),
              IndustryNode("N", "Utilities", 1, <<IndustryLeaf("N078", "Public", 2)>>) }
    IN  { <<>> } \cup { <<c>> : c \in ManufacturingNodes }
        \cup { <<n>> : n \in UtilitiesNodes }
        \cup { <<c, n>> : <<c, n>> \in ManufacturingNodes \X UtilitiesNodes }

\* codes of every level, an unknown code and the empty code
IndustryCodes == {"C", "C033", "C034", "C0331", "C03311", "N", "N078", "X999", ""}

\* load_industry_classification: the classification is read
InitIndex ==
    /\ industry_data \in Classifications
    /\ industry_lookup = [c \in {} |-> None]
    /\ index_op = [op |-> "none"]
    /\ IdleIndexRest

\* industry_lookup = build_industry_lookup(industry_data), once per run
BuildIndustryLookup ==
    /\ index_op.op = "none"
    /\ industry_lookup' = build_industry_lookup(industry_data)
    /\ index_op' = [op |-> "build"]
    /\ UNCHANGED <<industry_data, indexRest>>

\* get_industry_hierarchy(code) on the index built, in both modules
GetIndustryHierarchy ==
    /\ index_op.op # "none"
    /\ \E code \in IndustryCodes :
          index_op' = [op |-> "get", code |-> code,
                       result |-> get_industry_hierarchy(code, industry_lookup),
                       app_result |-> app_get_industry_hierarchy(code, industry_lookup)]
    /\ UNCHANGED <<industry_data, industry_lookup, indexRest>>

NextIndex == BuildIndustryLookup \/ GetIndustryHierarchy

SpecIndex == InitIndex /\ [][NextIndex]_vars

(***************************************************************************)
(* claims about the industry hierarchy index                               *)
(***************************************************************************)
IndexBuilt == index_op.op # "none"

\* the nodes of the classification, each with the code of its parent
RECURSIVE Visited(_, _)
Visited(items, parent_code) ==
    IF items = <<>> THEN {}
    ELSE { [node |-> Head(items), parent_code |-> parent_code] }
         \cup (IF "children" \in DOMAIN Head(items)
               THEN Visited(Head(items).children, <<Head(items).code>>) ELSE {})
         \cup Visited(Tail(items), parent_code)

\* the code of the ancestor at level j of an indexed code, the code itself
\* included
RECURSIVE AncestorAt(_, _)
AncestorAt(code, j) ==
    IF industry_lookup[code].level = j THEN code
    ELSE AncestorAt(industry_lookup[code].parent_code[1], j)

Label(code) == code \o "|" \o industry_lookup[code].name

\* the labels the claim gives for a code of the index
ExpectedLabels(code) ==
    [key \in {"level1", "level2", "level3", "level4"} |->
        LET j == CHOOSE l \in 1..4 : LevelKey(l) = key
        IN  IF j <= industry_lookup[code].level THEN Label(AncestorAt(code, j)) ELSE ""]

\* C19: in the index built from a classification, the stored ancestry of
\* every visited node is the ancestry of its parent followed by the node's
\* own code, name and level, and get_industry_hierarchy of a code at level
\* k gives "<code>|<name>" of its ancestor at each level up to k and ""
\* for each level above k.
C19_AncestryAndLabels ==
    IndexBuilt =>
        /\ \A v \in Visited(industry_data, None) :
              /\ v.node.code \in DOMAIN industry_lookup
              /\ industry_lookup[v.node.code].hierarchy =
                    (IF v.parent_code = None THEN <<>>
                     ELSE industry_lookup[v.parent_code[1]].hierarchy)
                    \o <<[code |-> v.node.code, name |-> v.node.name,
                          level |-> v.node.level]>>
        /\ (index_op.op = "get" /\ index_op.code \in DOMAIN industry_lookup) =>
              /\ index_op.result = ExpectedLabels(index_op.code)
              /\ index_op.app_result = ExpectedLabels(index_op.code)

\* the lookup of C033 below C, in a classification that goes on below C033
C19_Witness ==
    /\ index_op.op = "get"
    /\ index_op.code = "C033"
    /\ "C0331" \in DOMAIN industry_lookup
    /\ Len(industry_lookup["C0331"].hierarchy) = 3
    /\ index_op.result = [level1 |-> "C|Manufacturing", level2 |-> "C033|Metal",
                          level3 |-> "", level4 |-> ""]
    /\ index_op.app_result = index_op.result

\* C20: get_industry_hierarchy of a code that is not in the index gives
\* four empty labels and leaves the index as it was.
C20_UnknownCodeEmpty ==
    [][(index_op'.op = "get" /\ index_op'.code \notin DOMAIN industry_lookup) =>
          /\ index_op'.result = NoLabels
          /\ index_op'.app_result = NoLabels
          /\ industry_lookup' = industry_lookup]_vars

\* the unknown code X999 was looked up in an index with entries
C20_Witness ==
    /\ index_op.op = "get"
    /\ index_op.code = "X999"
    /\ DOMAIN industry_lookup # {}
    /\ "X999" \notin DOMAIN industry_lookup
    /\ index_op.result = NoLabels

(***************************************************************************)
(* weights taken from the configuration                                    *)
(*                                                                         *)
(* config_file is config/risk_assessment.yml: [exists |-> FALSE] when      *)
(* there is no file, else config is what yaml.safe_load returns, None for  *)
(* an empty file and <<m>> for a mapping m of section names; a section is  *)
(* None when its key has no value and <<s>> for a mapping s.  A call       *)
(* either raises (raised names the exception) or returns (raised = "").    *)
(***************************************************************************)
Returned(v) == [raised |-> "", value |-> v]

Raised(e) == [raised |-> e, value |-> None]

\* fkauto.get_surcharge_weight(), load_config() included
get_surcharge_weight(file) ==
    IF ~file.exists THEN Raised("FileNotFoundError")
    ELSE IF file.config = None THEN Raised("AttributeError")
    ELSE LET cfg == file.config[1]
             section == IF "surcharge_calculation" \in DOMAIN cfg
                        THEN cfg["surcharge_calculation"]
                        ELSE <<[k \in {} |-> 0]>>
         IN  IF section = None THEN Raised("AttributeError")
             ELSE IF "weight" \in DOMAIN section[1]
                  THEN Returned(section[1]["weight"])
                  ELSE Returned(100000)

\* calculate_nonlinear_surcharge(score) with weight=None
calculate_nonlinear_surcharge_default(file, s) ==
    LET w == get_surcharge_weight(file)
    IN  IF w.raised # "" THEN w
        ELSE Returned(calculate_nonlinear_surcharge(s, w.value))

\* build_condition_tree(data_lines) with weight=None on the tree `tree`
build_condition_tree_default(file, tree, lines) ==
    LET w == get_surcharge_weight(file)
    IN  IF w.raised # "" THEN w
        ELSE Returned(build_condition_tree(tree, lines, w.value))

\* RiskScoreCalculator(config).alpha, beta, gamma, delta
calculator_weights(file) ==
    LET cfg == IF file.config = None THEN [k \in {} |-> None] ELSE file.config[1]
        weights == IF "scoring_weights" \in DOMAIN cfg
                   THEN cfg["scoring_weights"] ELSE <<NoConfig>>
    IN  IF weights = None THEN Raised("AttributeError")
        ELSE Returned([w \in WeightNames |-> Weight(weights[1], w)])

\* the file missing, empty, and with each section absent, without value,
\* empty, partly and fully filled; weights 0.5 and 1.2
ConfigFiles ==
    LET Surcharge == { None, <<[k \in {} |-> 0]>>, <<("weight" :> 50000)>>,
                       <<("weight" :> 120000)>> }
        Scoring == { None } \cup { <<c>> : c \in ConfigSet }
        Section(name, S) == { [k \in {} |-> None] } \cup { (name :> v) : v \in S }
    IN  { [exists |-> FALSE], [exists |-> TRUE, config |-> None] }
        \cup { [exists |-> TRUE, config |-> <<a @@ b>>] :
                 a \in Section("surcharge_calculation", Surcharge),
                 b \in Section("scoring_weights", Scoring) }

InitConfig ==
    /\ config_file \in ConfigFiles
    /\ config_op = [op |-> "none"]
    /\ IdleConfigRest

\* a call calculate_nonlinear_surcharge(score)
CallNonlinearDefault ==
    /\ \E s \in NonlinearScores :
          config_op' = [op |-> "nonlinear", score |-> s,
                        out |-> calculate_nonlinear_surcharge_default(config_file, s)]
    /\ UNCHANGED <<config_file, configRest>>

\* a call build_condition_tree(data_lines) on the empty tree, as the module
\* makes when it is imported
BuildDefault ==
    /\ \E lines \in SeqsUpTo(LinePool, MaxLines) :
          config_op' = [op |-> "build", lines |-> lines,
                        out |-> build_condition_tree_default(config_file, EmptyTree, lines)]
    /\ UNCHANGED <<config_file, configRest>>

\* RiskScoreCalculator(config) on the loaded configuration
NewCalculator ==
    /\ config_file.exists
    /\ config_op' = [op |-> "calculator", out |-> calculator_weights(config_file)]
    /\ UNCHANGED <<config_file, configRest>>

NextConfig == CallNonlinearDefault \/ BuildDefault \/ NewCalculator

SpecConfig == InitConfig /\ [][NextConfig]_vars

(***************************************************************************)
(* RiskDataCache                                                           *)
(*                                                                         *)
(* A file path is <<directory, name>>.  A DataFrame d is held as <<d>>,    *)
(* so that a cached None (set_data(key, None)) is told from no entry.      *)
(***************************************************************************)
MaxCalls == 4

\* the files on disk: a UTF-8 file, a GBK file of the same name in another
\* directory, and a file neither encoding decodes; data/b.csv does not exist
CacheFiles ==
    (<<"data", "a.csv">> :> [encoding |-> "utf-8", content |-> "d1"]) @@
    (<<"other", "a.csv">> :> [encoding |-> "gbk", content |-> "d2"]) @@
    (<<"data", "c.csv">> :> [encoding |-> "binary", content |-> "d3"])

CachePaths == DOMAIN CacheFiles \cup { <<"data", "b.csv">> }

\* pd.read_csv(file_path, encoding='utf-8'), and with encoding='gbk' after
\* a UnicodeDecodeError
read_csv(file_path) ==
    LET read(encoding) ==
            IF file_path \notin DOMAIN CacheFiles THEN Raised("FileNotFoundError")
            ELSE IF CacheFiles[file_path].encoding # encoding
                 THEN Raised("UnicodeDecodeError")
                 ELSE Returned(<<CacheFiles[file_path].content>>)
    IN  IF read("utf-8").raised = "UnicodeDecodeError" THEN read("gbk")
        ELSE read("utf-8")

\* load_data that reads the file on every call
load_data_uncached(cache, file_path, key) ==
    LET k == IF key = None THEN file_path[2] ELSE key[1]
        df == read_csv(file_path)
    IN  IF df.raised # "" THEN [cache |-> cache, out |-> df, read |-> TRUE]
        ELSE [cache |-> (k :> df.value) @@ cache, out |-> df, read |-> TRUE]

\* load_data(file_path, key) on the cache `cache`: the cache afterwards, the
\* outcome of the call and whether pd.read_csv was called
load_data(cache, file_path, key) ==
    LET basename == file_path[2]
        k == IF key = None THEN basename ELSE key[1]
        df == read_csv(file_path)
    IN  IF k \in DOMAIN cache
        THEN [cache |-> cache, out |-> Returned(cache[k]), read |-> FALSE]
        ELSE IF df.raised # ""
             THEN [cache |-> cache, out |-> df, read |-> TRUE]
             ELSE [cache |-> (k :> df.value) @@ cache, out |-> df, read |-> TRUE]

\* one entry of cache_log
CacheCall(op, file, key, value, out, read) ==
    [op |-> op, file |-> file, key |-> key, data |-> value, out |-> out, read |-> read]

InitCache ==
    /\ data_cache = [k \in {} |-> None]
    /\ cache_log = <<>>
    /\ IdleCacheRest

\* a call load_data(file_path) or load_data(file_path, 'k')
LoadData ==
    /\ Len(cache_log) < MaxCalls
    /\ \E file_path \in CachePaths, key \in {None, <<"k">>} :
          LET r == load_data(data_cache, file_path, key)
          IN  /\ data_cache' = r.cache
              /\ cache_log' = Append(cache_log,
                     CacheCall("load", file_path, key, None, r.out, r.read))
    /\ UNCHANGED cacheRest

\* a call get_data(key)
GetData ==
    /\ Len(cache_log) < MaxCalls
    /\ \E key \in {"a.csv", "c.csv", "k"} :
          cache_log' = Append(cache_log,
              CacheCall("get", None, <<key>>, None,
                        Returned(IF key \in DOMAIN data_cache
                                 THEN data_cache[key] ELSE None), FALSE))
    /\ UNCHANGED <<data_cache, cacheRest>>

\* a call set_data(key, data), data a DataFrame or None
SetData ==
    /\ Len(cache_log) < MaxCalls
    /\ \E key \in {"a.csv", "k"}, value \in {<<"s1">>, None} :
          /\ data_cache' = (key :> value) @@ data_cache
          /\ cache_log' = Append(cache_log,
                 CacheCall("set", None, <<key>>, value, Returned(None), FALSE))
    /\ UNCHANGED cacheRest

\* a call clear_cache()
ClearCache ==
    /\ Len(cache_log) < MaxCalls
    /\ data_cache' = [k \in {} |-> None]
    /\ cache_log' = Append(cache_log,
           CacheCall("clear", None, None, None, Returned(None), FALSE))
    /\ UNCHANGED cacheRest

NextCache == LoadData \/ GetData \/ SetData \/ ClearCache

SpecCache == InitCache /\ [][NextCache]_vars

(***************************************************************************)
(* claims about the configuration                                          *)
(***************************************************************************)
\* the section of the configuration file, None when the file, the
\* configuration or the section is missing or the section has no value
ConfiguredSection(name) ==
    IF ~config_file.exists \/ config_file.config = None THEN None
    ELSE IF name \notin DOMAIN config_file.config[1] THEN None
    ELSE config_file.config[1][name]

\* the weight key, its section or the configuration itself is missing
WeightMissing ==
    \/ ConfiguredSection("surcharge_calculation") = None
    \/ "weight" \notin DOMAIN ConfiguredSection("surcharge_calculation")[1]

\* the weight a scoring weight is configured with, None when it is not
ConfiguredScoringWeight(w) ==
    IF ConfiguredSection("scoring_weights") = None THEN None
    ELSE IF w \notin DOMAIN ConfiguredSection("scoring_weights")[1] THEN None
    ELSE <<ConfiguredSection("scoring_weights")[1][w]>>

\* C21: a call of calculate_nonlinear_surcharge or build_condition_tree
\* without a weight, made when the weight key, its section or the
\* configuration itself is missing, does not raise and gives the result of
\* the default weight 1.0; RiskScoreCalculator does not raise and has
\* 0.7/0.2/0.05/0.05 for each of alpha/beta/gamma/delta that is not
\* configured.
C21_MissingConfigNotFatal ==
    /\ (config_op.op = "nonlinear" /\ WeightMissing) =>
          /\ config_op.out.raised = ""
          /\ config_op.out.value = calculate_nonlinear_surcharge(config_op.score, 100000)
    /\ (config_op.op = "build" /\ WeightMissing) =>
          /\ config_op.out.raised = ""
          /\ config_op.out.value = build_condition_tree(EmptyTree, config_op.lines, 100000)
    /\ config_op.op = "calculator" =>
          /\ config_op.out.raised = ""
          /\ \A w \in WeightNames :
                ConfiguredScoringWeight(w) = None =>
                    config_op.out.value[w] = DefaultWeight(w)

(***************************************************************************)
(* claims about the RiskDataCache                                          *)
(***************************************************************************)
\* the key a logged call is about: the given one, for load_data without a
\* key the base name of the file
CallKey(c) == IF c.key = None THEN c.file[2] ELSE c.key[1]

\* the value of the most recent successful load_data or set_data for key k
\* among the first j calls since the last clear_cache, as <<value>>; None
\* when there is none
RECURSIVE LatestEntry(_, _)
LatestEntry(j, k) ==
    IF j = 0 \/ cache_log[j].op = "clear" THEN None
    ELSE IF cache_log[j].op = "set" /\ CallKey(cache_log[j]) = k
         THEN <<cache_log[j].data>>
    ELSE IF cache_log[j].op = "load" /\ CallKey(cache_log[j]) = k
            /\ cache_log[j].out.raised = ""
         THEN <<cache_log[j].out.value>>
    ELSE LatestEntry(j - 1, k)

\* what reading the file of a path gives: its content if it exists in
\* UTF-8 or GBK
FileData(path) ==
    IF path \in DOMAIN CacheFiles /\ CacheFiles[path].encoding \in {"utf-8", "gbk"}
    THEN <<CacheFiles[path].content>> ELSE None

\* C22: in any sequence of load_data, set_data, get_data and clear_cache
\* calls, load_data returns the entry cached under its key (by default the
\* base name of the file) without reading the file when there is one, and
\* otherwise reads the file and caches what it read under the key; get_data
\* returns the value of the most recent successful load_data or set_data
\* for the key since the last clear_cache, None when there is none.
C22_CacheSemantics ==
    /\ \A i \in 1..Len(cache_log) :
          LET c == cache_log[i]
              entry == LatestEntry(i - 1, CallKey(c))
          IN  /\ (c.op = "load" /\ entry # None) =>
                    /\ ~c.read
                    /\ c.out = Returned(entry[1])
              /\ (c.op = "load" /\ entry = None) =>
                    /\ c.read
                    /\ IF FileData(c.file) = None THEN c.out.raised # ""
                       ELSE c.out = Returned(FileData(c.file))
              /\ c.op = "get" =>
                    c.out = Returned(IF entry = None THEN None ELSE entry[1])
    /\ \A k \in {"a.csv", "c.csv", "k", "b.csv"} :
          IF LatestEntry(Len(cache_log), k) = None THEN k \notin DOMAIN data_cache
          ELSE k \in DOMAIN data_cache
               /\ data_cache[k] = LatestEntry(Len(cache_log), k)[1]

\* data/a.csv was read and cached under a.csv, other/a.csv was then loaded
\* from the cache without a read, and after clear_cache get_data gives None
C22_Witness ==
    /\ Len(cache_log) = 4
    /\ cache_log[1].op = "load" /\ cache_log[1].file = <<"data", "a.csv">>
    /\ cache_log[1].key = None /\ cache_log[1].read
    /\ cache_log[2].op = "load" /\ cache_log[2].file = <<"other", "a.csv">>
    /\ cache_log[2].key = None /\ ~cache_log[2].read
    /\ cache_log[2].out = Returned(<<"d1">>)
    /\ cache_log[3].op = "clear"
    /\ cache_log[4].op = "get" /\ cache_log[4].key = <<"a.csv">>
    /\ cache_log[4].out = Returned(None)
    /\ data_cache = [k \in {} |-> None]

(***************************************************************************)
(* further claims about the condition tree                                 *)
(***************************************************************************)
\* the nodes of a tree that carry a score
Scored(tree) == { p \in DOMAIN tree : tree[p].score # None }

\* the paths the rows inserted by the last build call end at
EndPaths == { RowPath(i) : i \in InsertedRows }

\* C23: in every state of the condition tree, score and surcharge of a node
\* are null together or set together and the root carries none; after a
\* build call the nodes that carry a score are those that carried one
\* before the call and those a row inserted by the call ends at, so a node
\* that is only on the way of inserted paths has both null.
C23_OnlyEndNodesCarry ==
    /\ \A p \in DOMAIN root : (root[p].score = None) <=> (root[p].surcharge = None)
    /\ <<>> \notin Scored(root)
    /\ IsBuild => Scored(root) = Scored(tree_op.before) \cup EndPaths

\* a second build call left a node of the first call carrying its score,
\* added a carrying node of its own, and the nodes above them carry nothing
C23_Witness ==
    /\ IsBuild
    /\ Scored(tree_op.before) # {}
    /\ EndPaths # {}
    /\ EndPaths \cap Scored(tree_op.before) = {}
    /\ \E p \in EndPaths : Len(p) = 5
          /\ \A k \in 0..4 : root[SubSeq(p, 1, k)].score = None
                             /\ root[SubSeq(p, 1, k)].surcharge = None

(***************************************************************************)
(* the built structures under queries: a run builds the condition tree or  *)
(* the industry index and queries it                                       *)
(***************************************************************************)
InitReadOnly == InitTree \/ InitIndex

\* the fkauto run: no classification is loaded
TreeRun == industry_data = <<>> /\ index_op.op = "none" /\ NextTree

\* the preprocessing run: the condition tree is not touched
IndexRun == tree_op.op = "none" /\ NextIndex

NextReadOnly == TreeRun \/ IndexRun

SpecReadOnly == InitReadOnly /\ [][NextReadOnly]_vars

\* C24: a calculate_surcharge query leaves the condition tree as it was
\* (its nodes, their scores and surcharges), also when the path of the
\* query is not in the tree, and a get_industry_hierarchy call leaves the
\* industry index as it was.
C24_QueriesReadOnly ==
    [][/\ (tree_op'.op = "query" /\ tree_op' # tree_op) => root' = root
       /\ (index_op'.op = "get" /\ index_op' # index_op) =>
             /\ industry_lookup' = industry_lookup
             /\ industry_data' = industry_data]_vars

\* a query whose path is not in the tree was answered on a tree with nodes
C24_Witness ==
    /\ IsQuery
    /\ QueryPath(tree_op.query) \notin DOMAIN root
    /\ SubSeq(QueryPath(tree_op.query), 1, 2) \notin DOMAIN root
    /\ Scored(root) # {}

(***************************************************************************)
(* further claims about the aggregation tree                               *)
(***************************************************************************)
IsDataframe == calc_op.op = "tree_to_dataframe"

\* the nodes traverse_tree makes a row for: those without children, the
\* root included when the tree has no other node
RowNodes == { p \in DOMAIN calc_root : ~HasChildren(calc_root, p) }

\* the nodes on the way from the root to p, the root left out, that have
\* a score or a surcharge
NodesTo(p, first) == { SubSeq(p, 1, k) : k \in first..Len(p) } \ {<<>>}

ScoreKeys(nodes) ==
    { calc_root[n].name \o "_score" : n \in { m \in nodes : calc_root[m].score # None } }

SurchargeKeys(nodes) ==
    { calc_root[n].name \o "_surcharge" :
        n \in { m \in nodes : calc_root[m].surcharge # None } }

DimensionKeys(p) ==
    { calc_op.dimensions[i] : i \in 1..Min(Len(p), Len(calc_op.dimensions)) }

\* C25 as stated: after the scores and surcharges were calculated, the
\* columns of each row are the dimension columns, risk_score, surcharge
\* and the score / surcharge pair of each node above the row's leaf, with
\* no pair for the leaf itself.
C25_NoPairForLeaf ==
    (IsDataframe /\ calc_done.surcharges) =>
        \A i \in 1..Len(calc_op.rows) :
            \E p \in RowNodes :
                DOMAIN calc_op.rows[i] =
                    DimensionKeys(p) \cup {"risk_score", "surcharge"}
                    \cup ScoreKeys(NodesTo(p, 1) \ {p})
                    \cup SurchargeKeys(NodesTo(p, 1) \ {p})

\* the deepest node on the way to p with the name `name` that has the field
DeepestNamed(p, name, field) ==
    CHOOSE n \in NodesTo(p, 1) :
        /\ calc_root[n].name = name /\ calc_root[n][field] # None
        /\ \A m \in NodesTo(p, 1) :
              (calc_root[m].name = name /\ calc_root[m][field] # None) => Len(m) <= Len(n)

\* the row of the node p: its dimension columns, its score and surcharge,
\* and the score and the surcharge of every node on the way to it, p
\* included, under the node's name
RowOf(p) ==
    [c \in DimensionKeys(p) \cup {"risk_score", "surcharge"}
           \cup ScoreKeys(NodesTo(p, 1)) \cup SurchargeKeys(NodesTo(p, 1)) |->
        IF c \in ScoreKeys(NodesTo(p, 1))
        THEN LET name == CHOOSE x \in { calc_root[n].name : n \in NodesTo(p, 1) } :
                             x \o "_score" = c
             IN  calc_root[DeepestNamed(p, name, "score")].score
        ELSE IF c \in SurchargeKeys(NodesTo(p, 1))
        THEN LET name == CHOOSE x \in { calc_root[n].name : n \in NodesTo(p, 1) } :
                             x \o "_surcharge" = c
             IN  calc_root[DeepestNamed(p, name, "surcharge")].surcharge
        ELSE IF c = "risk_score" THEN calc_root[p].score
        ELSE IF c = "surcharge" THEN calc_root[p].surcharge
        ELSE <<p[CHOOSE i \in 1..Len(p) :
                    /\ i <= Len(calc_op.dimensions) /\ calc_op.dimensions[i] = c
                    /\ \A j \in 1..Min(Len(p), Len(calc_op.dimensions)) :
                          calc_op.dimensions[j] = c => j <= i]>>]

\* C25, amended: tree_to_dataframe gives one row for each node without
\* children, holding the dimension columns of the node's path, the node's
\* risk_score and surcharge, and a score / surcharge entry for every node
\* on the path that has one, the row's own node included.
C25_PairForEveryPathNode ==
    IsDataframe =>
        /\ Len(calc_op.rows) = Cardinality(RowNodes)
        /\ { calc_op.rows[i] : i \in 1..Len(calc_op.rows) } = { RowOf(p) : p \in RowNodes }

\* a row of a leaf at depth 2 after both passes: it holds the pair of the
\* leaf itself, equal to risk_score and surcharge, next to its parent's
C25_Witness ==
    /\ IsDataframe
    /\ calc_done.surcharges
    /\ calc_op.dimensions = <<"A", "B">>
    /\ \E i \in 1..Len(calc_op.rows) :
          LET row == calc_op.rows[i]
          IN  /\ DOMAIN row = {"A", "B", "risk_score", "surcharge", "A_score",
                               "A_surcharge", "B_score", "B_surcharge"}
              /\ row["B_score"] = row["risk_score"]
              /\ row["B_surcharge"] = row["surcharge"]
              /\ row["A_score"] # row["B_score"]

(***************************************************************************)
(* further claims about the industry hierarchy index                       *)
(***************************************************************************)
\* C26: in the index built from a classification every entry's ancestry is
\* strictly increasing in level and ends with the entry's own code (and
\* level), every node of the classification has an entry of its own, and
\* an entry has parent_code None exactly when its level is 1.
C26_IndexWellFormed ==
    IndexBuilt =>
        /\ \A code \in DOMAIN industry_lookup :
              LET entry == industry_lookup[code]
                  h == entry.hierarchy
              IN  /\ h # <<>>
                  /\ \A i \in 1..(Len(h) - 1) : h[i].level < h[i + 1].level
                  /\ h[Len(h)].code = code
                  /\ h[Len(h)].level = entry.level
                  /\ (entry.parent_code = None) <=> (entry.level = 1)
        /\ DOMAIN industry_lookup = { v.node.code : v \in Visited(industry_data, None) }
        /\ Cardinality(DOMAIN industry_lookup)
              = Cardinality(Visited(industry_data, None))

\* an index with entries at all four levels under one level-1 node, and a
\* second level-1 node
C26_Witness ==
    /\ IndexBuilt
    /\ "C03311" \in DOMAIN industry_lookup
    /\ Len(industry_lookup["C03311"].hierarchy) = 4
    /\ industry_lookup["C03311"].parent_code = <<"C0331">>
    /\ "N" \in DOMAIN industry_lookup
    /\ industry_lookup["N"].parent_code = None
    /\ industry_lookup["C"].parent_code = None

(***************************************************************************)
(* further claims about the fallback cascade                               *)
(***************************************************************************)
IsLookup == lookup_op.op = "lookup"

\* the query without the field k
WithoutField(q, k) == [f \in DOMAIN q \ {k} |-> q[f]]

\* C27: a field of the query whose name is no column of the dataset has no
\* effect: lookup_risk_score returns for the query what it returns for the
\* query without that field, so a later tier with matches is still reached
\* when an earlier tier names such a field.
C27_NonColumnFieldNoEffect ==
    IsLookup =>
        \A k \in DOMAIN lookup_op.query \ risk_data.columns :
            lookup_op.result = lookup_risk_score(risk_data, WithoutField(lookup_op.query, k))

\* C30: when the query has a province and the dataset holds a record of
\* that province, lookup_risk_score does not return the no-match result: it
\* returns a tier at or before the province tier with a non-empty set of
\* records and the mean of their scores.
C30_ProvinceNeverNoMatch ==
    (/\ IsLookup
     /\ "province" \in DOMAIN lookup_op.query
     /\ "province" \in risk_data.columns
     /\ \E i \in 1..Len(risk_data.rows) :
           risk_data.rows[i]["province"] = lookup_op.query["province"]) =>
        /\ lookup_op.result # None
        /\ lookup_op.result[1].match_type \in {"exact", "industry1_partial", "basic", "province"}
        /\ lookup_op.result[1].records # <<>>
        /\ lookup_op.result[1].avg_score =
              Fin(SumRiskScores(lookup_op.result[1].records),
                  Len(lookup_op.result[1].records))

(***************************************************************************)
(* the condition tree across build calls                                   *)
(***************************************************************************)
\* C28: a build_condition_tree call adds to the one tree: no node of the
\* tree before the call is removed, a node no row of the call ends at is
\* left as it was, a node rows of the call end at holds the score and the
\* surcharge of the last of them, and the walk of a query along a path
\* that carried a surcharge before the call still ends at that node and
\* returns the surcharge it holds now.
C28_BuildOnlyAdds ==
    IsBuild =>
        /\ DOMAIN tree_op.before \subseteq DOMAIN root
        /\ \A p \in DOMAIN tree_op.before \ EndPaths : root[p] = tree_op.before[p]
        /\ \A i \in InsertedRows :
              root[RowPath(i)] =
                  [score |-> <<RowScore(LastRowAt(i))>>,
                   surcharge |-> <<calculate_nonlinear_surcharge(RowScore(LastRowAt(i)),
                                                                 tree_op.weight)>>]
        /\ \A p \in Scored(tree_op.before) :
              <<Walk(root, <<>>, p, 0)>> = root[p].surcharge

\* a second call has inserted a row at the node of a row of the first
\* call: the node holds the surcharge of the second call, and the query
\* along its path returns it
C28_Witness ==
    /\ IsBuild
    /\ builds = 2
    /\ \E p \in Scored(tree_op.before) \cap EndPaths :
          /\ root[p].surcharge # tree_op.before[p].surcharge
          /\ <<Walk(root, <<>>, p, 0)>> = root[p].surcharge
          /\ Walk(root, <<>>, p, 0) # 0

(***************************************************************************)
(* the aggregation tree and the order of the records                       *)
(***************************************************************************)
\* the orders the built records can be handed over in
RecordOrders ==
    LET n == Len(calc_built.records)
    IN  { [i \in 1..n |-> calc_built.records[f[i]]] :
            f \in { g \in [1..n -> 1..n] : \A i, j \in 1..n : g[i] = g[j] => i = j } }

\* how many times a record is in a data list
Occurrences(items, row) == Cardinality({ i \in 1..Len(items) : items[i] = row })

SameStoredRecords(a, b) ==
    /\ DOMAIN a = DOMAIN b
    /\ \A q \in DOMAIN a :
          \A row \in BuiltRecords :
              Occurrences(a[q].data, row) = Occurrences(b[q].data, row)

SameScores(a, b) ==
    /\ DOMAIN a = DOMAIN b
    /\ \A q \in DOMAIN a :
          calculate_tree_scores(a)[q].score = calculate_tree_scores(b)[q].score

\* C29: the tree build_tree leaves does not depend on the order of the
\* records: for every order of the same records it has the same nodes, the
\* same records stored at each node, and the same node scores after
\* calculate_tree_scores.
C29_OrderIndependent ==
    calc_op.op = "build_tree" =>
        \A rows \in RecordOrders :
            LET other == build_tree(rows, calc_built.dimensions)
            IN  /\ SameStoredRecords(calc_root, other)
                /\ SameScores(calc_root, other)

\* the same for records none of which ends its path at a node another
\* record passes through
C29_NoPathInsideAnother ==
    \A r1, r2 \in BuiltRecords :
        LET p1 == PresentPath(r1, calc_built.dimensions)
            p2 == PresentPath(r2, calc_built.dimensions)
        IN  p1 \in Prefixes(p2) => p1 = p2

C29_OrderIndependentOnLeaves ==
    (calc_op.op = "build_tree" /\ C29_NoPathInsideAnother) => C29_OrderIndependent

====
